---- MODULE Spec2Model ----
(***************************************************************************)
(* The location index of epub.js (class Locations, locations.js) together  *)
(* with the collaborators it drives: the spine it walks, the sequential    *)
(* task queue that runs process() once per linear section, the section     *)
(* loader, and the CFI comparator / insertion search its queries use.      *)
(***************************************************************************)
EXTENDS Integers, Sequences, FiniteSets, TLC

(***************************************************************************)
(* Bounds of the model.                                                    *)
(***************************************************************************)
\* number of spine items of the book
NumSections == 2
\* text nodes of one document
MaxNodes == 2
\* characters of one text node
MaxNodeLen == 2
\* largest chunk size handed to generate(chars)
MaxBreak == 1
\* largest chunk size handed to parse(contents, cfiBase, chars)
MaxChars == 3
\* characters of one text node of a document handed to parse() directly
MaxTextLen == 4
\* calls of generate() in one behaviour
MaxGenerate == 2
\* calls of load() in one behaviour
MaxLoad == 1
\* items of a page list
MaxPageItems == 3
\* largest page number of a page list
MaxPage == 2
\* entries of a list handed to load()
MaxLoadLen == 2
\* words of one text node of a document handed to parseWords()
MaxWords == 3
\* largest wordCount handed to generateFromWords()
MaxWordCount == 2
\* largest count handed to generateFromWords()
MaxCount == 3
\* largest pause handed to the constructor of Locations
MaxPause == 1
\* files of the archive and of the store
MaxFiles == 2
\* blob URLs created in one behaviour
MaxUrls == 3
\* TOC items in one list
MaxItems == 2
\* 'changed' events emitted by calls of setCurrent
MaxEmitted == 1
\* sections of a Spine that is unpacked and edited
MaxSpineItems == 3
\* assets of a manifest
MaxAssets == 3
\* calls of rendition.display()
MaxDisplays == 2
\* largest index of the spine element among the children of the package
MaxSpineNode == 2
\* steps of a path handed to compare()
MaxSteps == 2
\* largest index of a step of such a path
MaxIndex == 2
\* largest character offset of a CFI handed to compare()
MaxOffset == 1

(***************************************************************************)
(* Program constants.                                                      *)
(***************************************************************************)
\* this.break = 150
DefaultBreak == 150
\* the step of <body> under <html>: its second element child
BodyStep == 4

None == 0

Sections == 1 .. NumSections

(***************************************************************************)
(* CFIs.  A parsed CFI holds the spine position, the element path (steps   *)
(* with an index and a side-bias), the terminal character offset, and,    *)
(* for a range CFI, the end point.  A text node that is the i-th child    *)
(* text of <body> sits at the odd virtual index 2i-1.                     *)
(***************************************************************************)
Before == 0
NoBias == 1
After == 2

Step(i) == [index |-> i, bias |-> NoBias]

\* the path of the i-th text node of a document
NodePath(i) == <<Step(BodyStep), Step(2 * i - 1)>>

\* a point CFI: section k (spinePos k-1), text node i, character offset o
PointCfi(k, i, o) ==
  [spinePos |-> k - 1, steps |-> NodePath(i), offset |-> o, end |-> <<>>]

\* new EpubCFI(range, cfiBase): the range CFI of a range of section k
RangeCfi(k, range) ==
  [spinePos |-> k - 1,
   steps    |-> NodePath(range.startContainer),
   offset   |-> range.startOffset,
   end      |-> <<range.endContainer, range.endOffset>>]

\* the comparison of the paths that leaves the side-bias out
RECURSIVE compareStepsNoBias(_, _, _)
compareStepsNoBias(a, b, i) ==
  IF i > Len(a.steps) /\ i > Len(b.steps)
  THEN IF a.offset > b.offset THEN 1
       ELSE IF a.offset < b.offset THEN -1
       ELSE 0
  ELSE IF i > Len(a.steps) THEN -1
  ELSE IF i > Len(b.steps) THEN 1
  ELSE IF a.steps[i].index > b.steps[i].index THEN 1
  ELSE IF a.steps[i].index < b.steps[i].index THEN -1
  ELSE compareStepsNoBias(a, b, i + 1)

RECURSIVE compareSteps(_, _, _)
compareSteps(a, b, i) ==
  IF i > Len(a.steps) /\ i > Len(b.steps)
  THEN IF a.offset > b.offset THEN 1
       ELSE IF a.offset < b.offset THEN -1
       ELSE 0
  ELSE IF i > Len(a.steps) THEN -1
  ELSE IF i > Len(b.steps) THEN 1
  ELSE IF a.steps[i].index > b.steps[i].index THEN 1
  ELSE IF a.steps[i].index < b.steps[i].index THEN -1
  ELSE IF a.steps[i].bias > b.steps[i].bias THEN 1
  ELSE IF a.steps[i].bias < b.steps[i].bias THEN -1
  ELSE compareSteps(a, b, i + 1)

\* EpubCFI.compare: spine position first, then the paths step by step
\* (a range CFI is placed by its start point)
compare(a, b) ==
  IF a.spinePos > b.spinePos THEN 1
  ELSE IF a.spinePos < b.spinePos THEN -1
  ELSE compareSteps(a, b, 1)

\* strictly increasing under the comparator
Increasing(s) == \A i \in 1 .. Len(s) - 1 : compare(s[i], s[i + 1]) = -1

(***************************************************************************)
(* locationOf(item, array, compare): binary search for the insertion       *)
(* index of item in an ascending array (indices are 0-based, as in the     *)
(* program).                                                               *)
(***************************************************************************)
RECURSIVE locationOfIn(_, _, _, _)
locationOfIn(item, array, start, end) ==
  LET pivot    == start + ((end - start) \div 2)
      compared == compare(array[pivot + 1], item)
  IN  IF end - start <= 0 THEN pivot
      ELSE IF end - start = 1
           THEN (IF compared >= 0 THEN pivot ELSE pivot + 1)
      ELSE IF compared = 0 THEN pivot
      ELSE IF compared = -1 THEN locationOfIn(item, array, pivot, end)
      ELSE locationOfIn(item, array, start, pivot)

locationOf(item, array) == locationOfIn(item, array, 0, Len(array))

(***************************************************************************)
(* Locations.parse(contents, cfiBase): a document is the sequence of the   *)
(* lengths of its text nodes in document order; a text node that holds     *)
(* only whitespace is written as the negative of its length, so a node n   *)
(* has node.textContent.trim().length === 0 exactly when n <= 0.           *)
(***************************************************************************)
Docs == UNION {[1 .. n -> -MaxNodeLen .. MaxNodeLen] : n \in 0 .. MaxNodes}

\* the documents of the book: every text node is whitespace or full length
BookDocs == {d \in Docs : \A i \in 1 .. Len(d) : d[i] \in {0, MaxNodeLen}}

createRange ==
  [startContainer |-> None, startOffset |-> None,
   endContainer |-> None, endOffset |-> None]

\* the while loop of parser(node): s is the parse state, pos the position
RECURSIVE parserLoop(_, _, _, _, _, _)
parserLoop(s, k, node, len, pos, brk) ==
  IF pos >= len THEN s
  ELSE
    LET dist == brk - s.counter
        pos1 == IF s.counter = 0 THEN pos + 1 ELSE pos
        s1   == IF s.counter = 0
                THEN [s EXCEPT !.range = [createRange EXCEPT
                                            !.startContainer = node,
                                            !.startOffset = pos1]]
                ELSE s
    IN  IF pos1 + dist >= len
        THEN parserLoop([s1 EXCEPT !.counter = @ + (len - pos1)],
                        k, node, len, len, brk)
        ELSE
          LET pos2 == pos1 + dist
              rng  == [s1.range EXCEPT !.endContainer = node,
                                       !.endOffset = pos2]
          IN  parserLoop([s1 EXCEPT !.range = rng,
                                    !.locations = Append(@, RangeCfi(k, rng)),
                                    !.counter = 0],
                         k, node, len, pos2, brk)

\* parser(node) without the test for whitespace: the node is measured
\* like any other
parserNoSkip(s, k, node, len, brk) ==
  LET n    == IF len < 0 THEN -len ELSE len
      s1   == IF s.counter = 0
              THEN [s EXCEPT !.range = [createRange EXCEPT
                                          !.startContainer = node,
                                          !.startOffset = 0]]
              ELSE s
      dist == brk - s1.counter
      s2   == IF dist > n THEN [s1 EXCEPT !.counter = @ + n] ELSE s1
      pos  == IF dist > n THEN n ELSE 0
      s3   == parserLoop(s2, k, node, n, pos, brk)
  IN  [s3 EXCEPT !.prev = node]

\* parser(node): one text node of the document
parser(s, k, node, len, brk) ==
  IF len <= 0 THEN s
  ELSE
    LET s1   == IF s.counter = 0
                THEN [s EXCEPT !.range = [createRange EXCEPT
                                            !.startContainer = node,
                                            !.startOffset = 0]]
                ELSE s
        dist == brk - s1.counter
        s2   == IF dist > len THEN [s1 EXCEPT !.counter = @ + len] ELSE s1
        pos  == IF dist > len THEN len ELSE 0
        s3   == parserLoop(s2, k, node, len, pos, brk)
    IN  [s3 EXCEPT !.prev = node]

\* sprint(body, parser): the text nodes in document order
RECURSIVE sprint(_, _, _, _, _)
sprint(s, k, doc, node, brk) ==
  IF node > Len(doc) THEN s
  ELSE sprint(parser(s, k, node, doc[node], brk), k, doc, node + 1, brk)

parse(doc, k, brk) ==
  LET s0 == [locations |-> <<>>, range |-> createRange, counter |-> 0,
             prev |-> None]
      s  == sprint(s0, k, doc, 1, brk)
  IN  IF s.range.startContainer # None /\ s.prev # None
      THEN Append(s.locations,
                  RangeCfi(k, [s.range EXCEPT !.endContainer = s.prev,
                                              !.endOffset = doc[s.prev]]))
      ELSE s.locations

(***************************************************************************)
(* State.                                                                  *)
(*   spine             the sections of the book: linear flag and document  *)
(*   _locations, total, break   the fields of the Locations object         *)
(*   q                 the task queue: waiting sections, running, paused   *)
(*   awaited           the section whose process() promise the queue is    *)
(*                     waiting for, or None                                *)
(*   loads             sections whose load was requested and has not       *)
(*                     settled yet                                         *)
(*   held              sections whose load was requested and that were not *)
(*                     unloaded (nor failed to load) since                 *)
(*   timers            sections whose pause timer is pending               *)
(*   processingTimeout the section of the timer set last, or None          *)
(*   promise           the promise returned by the last generate()         *)
(*   destroyed         destroy() was called: _locations, total and break   *)
(*                     are undefined from then on (their values in the     *)
(*                     model are placeholders nothing reads)               *)
(*   ret               the last query made and the value it returned       *)
(* History, kept for the properties:                                       *)
(*   genCount, loadCount   calls made so far                               *)
(*   base              _locations as the last generate() call found it, or *)
(*                     as a later load() set it                            *)
(*   started           sections whose load this run requested, in order    *)
(*   appended          sections whose chunks this run appended, in order   *)
(*   tail              sections whose chunks were appended since base      *)
(*   failed            sections whose load was rejected in this run        *)
(*   faulted           a continuation ran into the destroyed index         *)
(* The PageList object of the book:                                        *)
(*   pageList          the items parsed from the navigation document       *)
(*   pages, locations  the page numbers and the CFIs process() pushed      *)
(*   firstPage, lastPage, totalPages   the page range process() computed   *)
(* The Book that owns the index:                                           *)
(*   book              the fields of the Book: archived, isOpen, the       *)
(*                     packaging, navigation, pageList, displayOptions     *)
(*   loading           the deferreds behind book.loaded and book.opened    *)
(*   waiting           the requests made and the promise callbacks         *)
(*                     registered that have not run yet                    *)
(*   completed         history: the calls unpack() made and the            *)
(*                     operations it started that are over                 *)
(*   rangePromise      the promise returned by the getRange() call made    *)
(* The index by words (generateFromWords):                                 *)
(*   _locationsWords, _wordCounter   the fields of the Locations object    *)
(*   wordsRun          the arguments of the generateFromWords() call whose *)
(*                     tasks are in the queue                              *)
(* The pause between documents:                                            *)
(*   pauseArg, pause   the argument handed to the constructor and the      *)
(*                     field it set                                        *)
(*   processingDelay   the delay of the pause timer set last               *)
(* Archive and Store, and the Navigation:                                  *)
(*   urlCache          the urlCache of each of the two objects             *)
(*   responses         the getBlob()/getBase64() responses createUrl()     *)
(*                     waits for                                           *)
(*   objectURLs        the blob URLs created so far, each with the blob it *)
(*                     is for and whether it was revoked                   *)
(*   navigation        the Navigation object: toc, tocByHref, tocById,     *)
(*                     length                                              *)
(***************************************************************************)
VARIABLES spine, _locations, total, break, q, awaited, loads, held, timers,
          processingTimeout, promise, destroyed, ret, genCount, loadCount,
          base, tail, started, appended, failed, faulted,
          pageList, pages, locations, firstPage, lastPage, totalPages,
          book, loading, waiting, completed, rangePromise,
          _locationsWords, _wordCounter, wordsRun, pause, pauseArg,
          processingDelay, urlCache, responses, objectURLs, navigation,
          parseRun, _current, _currentCfi, emitted, spineObj, resources,
          rendition

vars == <<spine, _locations, total, break, q, awaited, loads, held, timers,
          processingTimeout, promise, destroyed, ret, genCount, loadCount,
          base, tail, started, appended, failed, faulted,
          pageList, pages, locations, firstPage, lastPage, totalPages,
          book, loading, waiting, completed, rangePromise,
          _locationsWords, _wordCounter, wordsRun, pause, pauseArg,
          processingDelay, urlCache, responses, objectURLs, navigation,
          parseRun, _current, _currentCfi, emitted, spineObj, resources,
          rendition>>

index == <<_locations, total, break>>
history == <<genCount, loadCount, base, tail, started, appended, failed,
            faulted>>
\* the fields of the PageList object
pagelist == <<pageList, pages, locations, firstPage, lastPage, totalPages>>

\* the index, its queue and the page list
indexState == <<spine, index, q, awaited, loads, held, timers,
                processingTimeout, promise, destroyed, ret, history,
                pagelist>>

\* the Book that owns the index, with its promises
bookState == <<book, loading, waiting, completed, rangePromise>>

\* a deferred of the Book that was not resolved yet
Pending == [state |-> "pending", value |-> "none"]

\* new Book(): nothing is open, every promise of loading is pending; the
\* settings and the kind of input make the book archived or not and turn
\* the replacements on or off
NewBook(archived, replacements) ==
  [archived |-> archived, replacements |-> replacements,
   packaging |-> [layout |-> "undefined", nav |-> "undefined"],
   isOpen |-> FALSE, spineLoaded |-> FALSE, navigation |-> "undefined",
   pageList |-> "undefined", displayOptions |-> "undefined",
   destroyed |-> FALSE]

NoRangePromise == [cfi |-> None, state |-> "none", value |-> "none"]

\* the fields of the index by words
words == <<_locationsWords, _wordCounter, wordsRun>>

\* the pause between documents
pausing == <<pause, pauseArg, processingDelay>>

\* the temporary URLs of Archive and Store
urls == <<urlCache, responses, objectURLs>>

\* the current location of the index and the 'changed' events it emitted
current == <<_current, _currentCfi, emitted>>

\* a parse() under way, the Spine object, the Resources and the Rendition
more == <<parseRun, current, spineObj, resources, rendition>>

\* what the steps of the Book leave alone, and the steps of the index too
others == <<words, pausing, urls, navigation, more>>

\* this.pause = pause || 100
DefaultPause == 100

\* a constructor argument that was left out
NotGiven == [given |-> FALSE, value |-> 0]
Given(v) == [given |-> TRUE, value |-> v]

\* this.pause = pause || 100: undefined and 0 are both falsy
constructorPause(given) ==
  IF given.given /\ given.value # 0 THEN given.value ELSE DefaultPause

\* no pause timer was set yet
NoDelay == -1

\* the two objects that keep a urlCache
Owners == {"Archive", "Store"}

\* the paths of the files createUrl() is asked for
Files == 1 .. MaxFiles

\* no entry of a urlCache at a path
NoUrl == [kind |-> "none", id |-> 0]

\* this.urlCache = {}
EmptyCache == [f \in Files |-> NoUrl]

\* no generateFromWords() call is under way
\* a start CFI that was left out (the value is a placeholder nothing reads)
NoStart == [given |-> FALSE, value |-> PointCfi(0, 1, 0)]

NoWordsRun ==
  [wordCount |-> 0, start |-> NoStart, count |-> NotGiven, on |-> FALSE]

\* the strings that serve as ids and hrefs of TOC items
Names == {"a", "b"}

\* undefined, where an index into a list of TOC items is expected
NoIndex == -1

\* new Navigation(): nothing parsed
NewNavigation == [toc |-> <<>>, tocByHref |-> [n \in Names |-> NoIndex],
                  tocById |-> [n \in Names |-> NoIndex], length |-> 0]

\* this._currentCfi = "": no CFI string
NoCurrentCfi == [given |-> FALSE, value |-> PointCfi(0, 1, 0)]

\* no parse() is under way
NoParseRun ==
  [at |-> "idle", doc |-> <<>>, section |-> 0, brk |-> 0, node |-> 0,
   len |-> 0, pos |-> 0,
   s |-> [locations |-> <<>>, range |-> createRange, counter |-> 0,
          prev |-> None]]

\* the idrefs of the sections a Spine is handed; the href of a section is
\* told by its idref, and by whether it is written with characters that
\* encodeURI() changes
SpineIds == 1 .. MaxSpineItems

\* the strings that serve as keys of spineByHref
HrefKeys == [name : SpineIds, encoded : BOOLEAN]

\* new Spine()
NewSpine ==
  [spineItems |-> <<>>,
   spineByHref |-> [h \in HrefKeys |-> NoIndex],
   spineById |-> [i \in SpineIds |-> NoIndex]]

\* new Resources(manifest, options) of a manifest without assets
NoResources ==
  [urls |-> <<>>, cssUrls |-> <<>>, replacementUrls |-> <<>>,
   requests |-> <<>>, state |-> "new"]

\* this.displaying of a Rendition that is displaying nothing
NoDisplay == 0

\* new Rendition(book, options): nothing was displayed
NewRendition == [book |-> TRUE, displaying |-> NoDisplay, displays |-> <<>>]

\* the index as constructed, and the objects beside it
InitMore ==
  /\ parseRun = NoParseRun
  /\ _current = 0
  /\ _currentCfi = NoCurrentCfi
  /\ emitted = <<>>
  /\ spineObj = NewSpine
  /\ resources = NoResources
  /\ rendition = NewRendition

\* new Locations(spine, request), and the other objects as constructed
InitOthers ==
  /\ _locationsWords = <<>>
  /\ _wordCounter = 0
  /\ wordsRun = NoWordsRun
  /\ pauseArg = NotGiven
  /\ pause = constructorPause(NotGiven)
  /\ processingDelay = NoDelay
  /\ urlCache = [o \in Owners |-> EmptyCache]
  /\ responses = {}
  /\ objectURLs = <<>>
  /\ navigation = NewNavigation
  /\ InitMore

\* the Book of an index that is used on its own
InitBookState ==
  /\ book = NewBook(FALSE, "undefined")
  /\ loading = [displayOptions |-> Pending, navigation |-> Pending,
                pageList |-> Pending, opening |-> Pending]
  /\ waiting = {}
  /\ completed = {}
  /\ rangePromise = NoRangePromise

\* spine.each() without the test of section.linear
RECURSIVE everyFrom(_, _)
everyFrom(sp, s) ==
  IF s > NumSections THEN <<>> ELSE <<s>> \o everyFrom(sp, s + 1)

\* the sections of s .. NumSections that are linear, in spine order
RECURSIVE linearFrom(_, _)
linearFrom(sp, s) ==
  IF s > NumSections THEN <<>>
  ELSE IF sp[s].linear THEN <<s>> \o linearFrom(sp, s + 1)
  ELSE linearFrom(sp, s + 1)

\* the chunks of the sections of ks[from..], one section after the other
RECURSIVE chunksOf(_, _, _, _)
chunksOf(sp, ks, from, brk) ==
  IF from > Len(ks) THEN <<>>
  ELSE parse(sp[ks[from]].contents, ks[from], brk)
         \o chunksOf(sp, ks, from + 1, brk)

\* new Locations(spine, request)
Init ==
  /\ spine \in [Sections -> [linear : BOOLEAN, contents : BookDocs]]
  /\ _locations = <<>>
  /\ total = 0
  /\ break = DefaultBreak
  /\ q = [_q |-> <<>>, running |-> FALSE, paused |-> FALSE]
  /\ awaited = None
  /\ loads = {}
  /\ held = {}
  /\ timers = {}
  /\ processingTimeout = None
  /\ promise = "none"
  /\ destroyed = FALSE
  /\ ret = [op |-> "none", arg |-> 0, val |-> 0]
  /\ genCount = 0
  /\ loadCount = 0
  /\ base = <<>>
  /\ tail = <<>>
  /\ started = <<>>
  /\ appended = <<>>
  /\ failed = {}
  /\ faulted = FALSE
  /\ pageList = <<>>
  /\ pages = <<>>
  /\ locations = <<>>
  /\ firstPage = 0
  /\ lastPage = 0
  /\ totalPages = 0
  /\ InitBookState
  /\ InitOthers

(***************************************************************************)
(* The queue: pause(), enqueue(), run(), stop() and the drain.             *)
(***************************************************************************)
\* q.pause(); one q.enqueue(process, section) per section of ks; q.run()
enqueueAndRun(ks) ==
  q' = [_q |-> q._q \o ks, running |-> TRUE, paused |-> FALSE]

\* q.stop()
stop == q' = [_q |-> <<>>, running |-> FALSE, paused |-> TRUE]

(***************************************************************************)
(* generate(chars): chars = 0 stands for a call without argument.          *)
(***************************************************************************)
Generate(chars) ==
  /\ ~destroyed
  /\ ~q.running
  /\ genCount < MaxGenerate
  /\ break' = (IF chars # 0 THEN chars ELSE break)
  /\ enqueueAndRun(linearFrom(spine, 1))
  /\ promise' = "pending"
  /\ genCount' = genCount + 1
  /\ base' = _locations
  /\ tail' = <<>>
  /\ started' = <<>>
  /\ appended' = <<>>
  /\ failed' = {}
  /\ UNCHANGED <<destroyed, ret, spine, _locations, total, awaited, loads,
                 held, timers, processingTimeout, loadCount, faulted,
                 pagelist, bookState, others>>

\* process() written without its "return": the load is requested but the
\* queue is handed nothing to wait for
processNoReturn(k) ==
  /\ loads' = loads \cup {k}
  /\ held' = held \cup {k}
  /\ awaited' = None

\* process(section): the load is requested and the promise of the whole
\* task is handed back to the queue
process(k) ==
  /\ loads' = loads \cup {k}
  /\ held' = held \cup {k}
  /\ awaited' = k

\* the queue takes the next task once the previous one has settled
Dequeue ==
  /\ ~wordsRun.on
  /\ q.running
  /\ ~q.paused
  /\ awaited = None
  /\ q._q # <<>>
  /\ q' = [q EXCEPT !._q = Tail(@)]
  /\ process(Head(q._q))
  /\ started' = Append(started, Head(q._q))
  /\ UNCHANGED <<destroyed, ret, spine, index, timers, processingTimeout,
                 promise, genCount, loadCount, base, tail, appended, failed,
                 faulted, pagelist, bookState, others>>

\* the continuation of process(): section.load() resolved with the contents
LoadResolve(k) ==
  /\ ~wordsRun.on
  /\ k \in loads
  /\ loads' = loads \ {k}
  /\ IF destroyed
     THEN \* this._locations is undefined: the continuation throws
          /\ faulted' = TRUE
          /\ awaited' = (IF awaited = k THEN None ELSE awaited)
          /\ UNCHANGED <<_locations, held, timers, processingTimeout,
                         processingDelay, appended, tail>>
     ELSE /\ _locations' = _locations \o parse(spine[k].contents, k, break)
          /\ held' = held \ {k}
          /\ timers' = timers \cup {k}
          /\ processingTimeout' = k
          /\ processingDelay' = pause
          /\ appended' = Append(appended, k)
          /\ tail' = Append(tail, k)
          /\ UNCHANGED <<awaited, faulted>>
  /\ UNCHANGED <<destroyed, ret, spine, total, break, q, promise, genCount,
                 loadCount, base, started, failed, pagelist, bookState,
                 words, pause, pauseArg, urls, navigation,
                 more>>

\* section.load() rejected, with a continuation that runs all the same and
\* appends what was parsed of the section so far
LoadRejectPartial(k) ==
  /\ k \in loads
  /\ ~destroyed
  /\ loads' = loads \ {k}
  /\ held' = held \ {k}
  /\ failed' = failed \cup {k}
  /\ awaited' = (IF awaited = k THEN None ELSE awaited)
  /\ LET chunks == parse(spine[k].contents, k, break)
     IN  _locations' =
           _locations \o (IF chunks = <<>> THEN <<>> ELSE <<chunks[1]>>)
  /\ UNCHANGED <<destroyed, ret, spine, total, break, q, timers,
                 processingTimeout, promise, genCount, loadCount, base, tail,
                 started, appended, faulted, pagelist, bookState, others>>

\* section.load() rejected: the continuation does not run; the queue
\* goes on with the next task
LoadRejectSkip(k) ==
  /\ ~wordsRun.on
  /\ k \in loads
  /\ loads' = loads \ {k}
  /\ held' = held \ {k}
  /\ failed' = failed \cup {k}
  /\ awaited' = (IF awaited = k THEN None ELSE awaited)
  /\ UNCHANGED <<destroyed, ret, spine, index, q, timers, processingTimeout,
                 promise, genCount, loadCount, base, tail, started, appended,
                 faulted, pagelist, bookState, others>>

\* section.load() rejected: the queue gives the whole run up
LoadRejectAbort(k) ==
  /\ ~wordsRun.on
  /\ k \in loads
  /\ awaited = k
  /\ q.running
  /\ loads' = loads \ {k}
  /\ held' = held \ {k}
  /\ failed' = failed \cup {k}
  /\ awaited' = None
  /\ q' = [q EXCEPT !._q = <<>>, !.running = FALSE]
  /\ promise' = "rejected"
  /\ UNCHANGED <<destroyed, ret, spine, index, timers, processingTimeout,
                 genCount, loadCount, base, tail, started, appended, faulted,
                 pagelist, bookState, others>>

\* a pause timer whose callback does not resolve the task
TimerFireNoResolve(k) ==
  /\ k \in timers
  /\ timers' = timers \ {k}
  /\ UNCHANGED <<destroyed, ret, spine, index, q, awaited, loads, held,
                 processingTimeout, promise, genCount, loadCount, base, tail,
                 started, appended, failed, faulted, pagelist, bookState,
                 others>>

\* the pause timer set by process() fires: completed.resolve(locations)
TimerFire(k) ==
  /\ k \in timers
  /\ timers' = timers \ {k}
  /\ awaited' = (IF awaited = k THEN None ELSE awaited)
  /\ UNCHANGED <<destroyed, ret, spine, index, q, loads, held,
                 processingTimeout, promise, genCount, loadCount, base, tail,
                 started, appended, failed, faulted, pagelist, bookState,
                 others>>

\* locationFromCfi(cfi) on the index locs with the total tot
locationFromCfiAt(cfi, locs, tot) ==
  IF Len(locs) = 0 THEN -1
  ELSE LET loc == locationOf(cfi, locs)
       IN  IF loc > tot THEN tot ELSE loc

\* percentageFromLocation(loc) with the total tot
percentageFromLocationAt(loc, tot) ==
  IF loc = 0 \/ tot = 0 THEN [num |-> 0, den |-> 1]
  ELSE [num |-> loc, den |-> tot]

\* setCurrent(curr) of a CFI string that emits whatever the index holds
setCurrentAlwaysEmits(curr, locs, tot, from) ==
  /\ _currentCfi' = Given(curr)
  /\ _current' = locationFromCfiAt(curr, locs, tot)
  /\ emitted' = Append(emitted,
                       [percentage |->
                          percentageFromLocationAt(
                            locationFromCfiAt(curr, locs, tot), tot),
                        from |-> from])

\* setCurrent(curr) of a CFI string, the index holding locs and the total
\* tot; an event emitted is noted with the caller it came from
setCurrent(curr, locs, tot, from) ==
  /\ _currentCfi' = Given(curr)
  /\ IF Len(locs) = 0
     THEN UNCHANGED <<_current, emitted>>
     ELSE LET loc == locationFromCfiAt(curr, locs, tot)
          IN  /\ _current' = loc
              /\ emitted' = Append(emitted,
                                   [percentage |->
                                      percentageFromLocationAt(loc, tot),
                                    from |-> from])

\* setCurrent(curr) of a number
setCurrentNumber(curr, locs, tot, from) ==
  /\ _current' = curr
  /\ IF Len(locs) = 0
     THEN UNCHANGED <<_currentCfi, emitted>>
     ELSE /\ emitted' = Append(emitted,
                               [percentage |->
                                  percentageFromLocationAt(curr, tot),
                                from |-> from])
          /\ UNCHANGED _currentCfi

\* locations.setCurrent(curr), or locations.currentLocation = curr, called
\* from outside with a CFI string
SetCurrentCfi(curr) ==
  /\ ~destroyed
  /\ Len(emitted) < MaxEmitted
  /\ setCurrent(curr, _locations, total, "call")
  /\ UNCHANGED <<indexState, bookState, words, pausing, urls, navigation,
                 parseRun, spineObj, resources, rendition>>

\* the same with a number
SetCurrentNumber(curr) ==
  /\ ~destroyed
  /\ Len(emitted) < MaxEmitted
  /\ setCurrentNumber(curr, _locations, total, "call")
  /\ UNCHANGED <<indexState, bookState, words, pausing, urls, navigation,
                 parseRun, spineObj, resources, rendition>>

\* the continuation of q.run() with total set to the number of entries
RunResolveCount ==
  /\ q.running
  /\ ~q.paused
  /\ awaited = None
  /\ q._q = <<>>
  /\ q' = [q EXCEPT !.running = FALSE]
  /\ total' = Len(_locations)
  /\ promise' = "resolved"
  /\ UNCHANGED <<destroyed, ret, spine, _locations, break, awaited, loads,
                 held, timers, processingTimeout, genCount, loadCount, base,
                 tail, started, appended, failed, faulted, pagelist,
                 bookState, others>>

\* the queue is drained: q.run()'s promise resolves and generate()'s
\* continuation sets total
RunResolve ==
  /\ ~wordsRun.on
  /\ q.running
  /\ ~q.paused
  /\ awaited = None
  /\ q._q = <<>>
  /\ q' = [q EXCEPT !.running = FALSE]
  /\ total' = Len(_locations) - 1
  /\ promise' = "resolved"
  /\ IF _currentCfi.given
     THEN setCurrent(_currentCfi.value, _locations, Len(_locations) - 1,
                     "generate")
     ELSE UNCHANGED current
  /\ UNCHANGED <<destroyed, ret, spine, _locations, break, awaited, loads,
                 held, timers, processingTimeout, genCount, loadCount, base,
                 tail, started, appended, failed, faulted, pagelist,
                 bookState, words, pausing, urls, navigation, parseRun,
                 spineObj, resources, rendition>>

(***************************************************************************)
(* load(locations): the lists handed in are saved indexes, hence           *)
(* strictly increasing.                                                    *)
(***************************************************************************)
Cfis == {PointCfi(k, i, o) : k \in Sections, i \in 1 .. MaxNodes,
                             o \in 0 .. MaxNodeLen}

\* the CFIs of saved lists: the start of the first text node of a section
SavedCfis == {PointCfi(k, 1, 0) : k \in Sections}

\* JSON.stringify(array) of an array of CFI strings: the text holds one
\* quoted string per entry
JSONstringify(array) == [i \in 1 .. Len(array) |-> [quoted |-> array[i]]]

\* JSON.parse(text) of such a text
JSONparse(text) == [i \in 1 .. Len(text) |-> text[i].quoted]

\* a value handed to load(): a string or an array
JsString(text) == [typeof |-> "string", value |-> text]
JsArray(array) == [typeof |-> "object", value |-> array]

\* save() of the other list the class keeps, which generate() leaves empty
saveWords == JSONstringify(<<>>)

\* save()
save == JSONstringify(_locations)

SavedLists ==
  {l \in UNION {[1 .. n -> SavedCfis] : n \in 0 .. MaxLoadLen} :
     Increasing(l)}

LoadInputs ==
  {JsArray(l) : l \in SavedLists}
    \cup {JsString(JSONstringify(l)) : l \in SavedLists}

\* load(locations), with arg for its argument: the list and the total the
\* index is left with
load(arg) ==
  LET parsed == IF arg.typeof = "string"
                THEN JSONparse(arg.value)
                ELSE arg.value
  IN  [_locations |-> parsed, total |-> Len(parsed) - 1]

Load(l) ==
  /\ ~destroyed
  /\ loadCount < MaxLoad
  /\ _locations' = load(l)._locations
  /\ total' = load(l).total
  /\ loadCount' = loadCount + 1
  /\ base' = load(l)._locations
  /\ tail' = <<>>
  /\ UNCHANGED <<destroyed, ret, spine, break, q, awaited, loads, held,
                 timers, processingTimeout, promise, genCount, started,
                 appended, failed, faulted, pagelist, bookState, others>>

(***************************************************************************)
(* destroy()                                                               *)
(***************************************************************************)
Destroy ==
  /\ ~destroyed
  /\ stop
  /\ destroyed' = TRUE
  /\ _locations' = <<>>
  /\ total' = 0
  /\ break' = 0
  /\ timers' = timers \ {processingTimeout}
  /\ _current' = None
  /\ _currentCfi' = NoCurrentCfi
  /\ UNCHANGED <<spine, awaited, loads, held, processingTimeout, promise, ret,
                 genCount, loadCount, base, tail, started, appended, failed,
                 faulted, pagelist, bookState, words, pausing, urls,
                 navigation, emitted, parseRun, spineObj, resources,
                 rendition>>

(***************************************************************************)
(* The queries.  A percentage is the fraction num / den, left as the       *)
(* division finds it.                                                      *)
(***************************************************************************)
Zero == [num |-> 0, den |-> 1]

\* percentageFromLocation without its guard
percentageUnguarded(loc) == [num |-> loc, den |-> total]

locationFromCfi(cfi) ==
  IF Len(_locations) = 0 THEN -1
  ELSE LET loc == locationOf(cfi, _locations)
       IN  IF loc > total THEN total ELSE loc

percentageFromLocation(loc) ==
  IF loc = 0 \/ total = 0 THEN Zero
  ELSE [num |-> loc, den |-> total]

\* the number -1, returned where a CFI is expected
MinusOne == [spinePos |-> -1, steps |-> <<>>, offset |-> 0, end |-> <<>>]

\* what new EpubCFI(undefined) turns into: no CFI of the book
EmptyCfi == [spinePos |-> -1, steps |-> <<>>, offset |-> -1, end |-> <<>>]

\* cfi.collapse(toStart): a range CFI becomes the point at its start or at
\* its end; a point CFI stays as it is
collapse(cfi, toStart) ==
  IF cfi.end = <<>> THEN cfi
  ELSE IF toStart THEN [cfi EXCEPT !.end = <<>>]
  ELSE [spinePos |-> cfi.spinePos, steps |-> NodePath(cfi.end[1]),
        offset |-> cfi.end[2], end |-> <<>>]

cfiFromLocation(loc) ==
  IF loc >= 0 /\ loc < Len(_locations) THEN _locations[loc + 1]
  ELSE MinusOne

\* a percentage argument is the fraction num / PercentDen
PercentDen == 100

\* Math.ceil(a / b) for b > 0
Ceil(a, b) == -((-a) \div b)

\* Math.floor(a / b) for b > 0
Floor(a, b) == a \div b

\* cfiFromPercentage with the location rounded down
cfiFromPercentageFloor(percentage) ==
  IF percentage.num >= percentage.den
  THEN IF total >= 0 /\ total < Len(_locations)
       THEN collapse(_locations[total + 1], FALSE)
       ELSE EmptyCfi
  ELSE cfiFromLocation(Floor(total * percentage.num, percentage.den))

\* cfiFromPercentage with the factor total left out of the location
cfiFromPercentageNoTotal(percentage) ==
  IF percentage.num >= percentage.den
  THEN IF total >= 0 /\ total < Len(_locations)
       THEN collapse(_locations[total + 1], FALSE)
       ELSE EmptyCfi
  ELSE cfiFromLocation(Ceil(percentage.num, percentage.den))

cfiFromPercentage(percentage) ==
  IF percentage.num >= percentage.den
  THEN IF total >= 0 /\ total < Len(_locations)
       THEN collapse(_locations[total + 1], FALSE)
       ELSE EmptyCfi
  ELSE cfiFromLocation(Ceil(total * percentage.num, percentage.den))

\* the percentages tried: 0, 0.25, 0.5, 0.99, 1 and 1.5
Percentages ==
  {[num |-> n, den |-> PercentDen] : n \in {0, 25, 50, 99, 100, 150}}

\* the location arguments tried: below, inside and above any index
LocArgs == -1 .. MaxLoadLen + 1

\* one query is observed in a behaviour: a later one would only replace ret
LocationFromCfiCall(cfi) ==
  /\ ~destroyed
  /\ ret.op = "none"
  /\ ret' = [op |-> "locationFromCfi", arg |-> cfi,
             val |-> locationFromCfi(cfi)]
  /\ UNCHANGED <<spine, index, q, awaited, loads, held, timers,
                 processingTimeout, promise, destroyed, history, pagelist,
                 bookState, others>>

PercentageFromLocationCall(loc) ==
  /\ ~destroyed
  /\ ret.op = "none"
  /\ ret' = [op |-> "percentageFromLocation", arg |-> loc,
             val |-> percentageFromLocation(loc)]
  /\ UNCHANGED <<spine, index, q, awaited, loads, held, timers,
                 processingTimeout, promise, destroyed, history, pagelist,
                 bookState, others>>

CfiFromLocationCall(loc) ==
  /\ ~destroyed
  /\ ret.op = "none"
  /\ ret' = [op |-> "cfiFromLocation", arg |-> loc,
             val |-> cfiFromLocation(loc)]
  /\ UNCHANGED <<spine, index, q, awaited, loads, held, timers,
                 processingTimeout, promise, destroyed, history, pagelist,
                 bookState, others>>

CfiFromPercentageCall(percentage) ==
  /\ ~destroyed
  /\ ret.op = "none"
  /\ ret' = [op |-> "cfiFromPercentage", arg |-> percentage,
             val |-> cfiFromPercentage(percentage)]
  /\ UNCHANGED <<spine, index, q, awaited, loads, held, timers,
                 processingTimeout, promise, destroyed, history, pagelist,
                 bookState, others>>

SaveCall ==
  /\ ~destroyed
  /\ ret.op = "none"
  /\ ret' = [op |-> "save", arg |-> 0, val |-> save]
  /\ UNCHANGED <<spine, index, q, awaited, loads, held, timers,
                 processingTimeout, promise, destroyed, history, pagelist,
                 bookState, others>>

(***************************************************************************)
(* PageList.  An item of the parsed page list holds a page number and,     *)
(* when its href is a CFI, that CFI; process() pushes every page number    *)
(* and the CFIs that are there.                                            *)
(***************************************************************************)
\* the cfi of an item whose href is no CFI (absent, or false)
Absent == [spinePos |-> -2, steps |-> <<>>, offset |-> 0, end |-> <<>>]

\* what reading an array past its end gives where a CFI is expected
Undefined == [spinePos |-> -3, steps |-> <<>>, offset |-> 0, end |-> <<>>]

\* what reading the pages array past its end gives
undefinedPage == -2

\* the CFIs of page-list items: the start of each section
PageCfis == {PointCfi(k, 1, 0) : k \in Sections}

PageItems == [cfi : PageCfis \cup {Absent}, page : 1 .. MaxPage]

PageLists == UNION {[1 .. n -> PageItems] : n \in 0 .. MaxPageItems}

\* if (item.cfi)
hasCfi(item) == item.cfi # Absent

\* process(pageList): this.pages.push(item.page) for every item
processPages(list) == [i \in 1 .. Len(list) |-> list[i].page]

\* process(pageList): this.locations.push(item.cfi) for the items with one
processLocations(list) ==
  LET withCfi == SelectSeq(list, hasCfi)
  IN  [i \in 1 .. Len(withCfi) |-> withCfi[i].cfi]

\* indexOfSorted(item, array, compare): binary search for an entry that
\* compares equal to item; -1 when there is none (0-based)
RECURSIVE indexOfSortedIn(_, _, _, _)
indexOfSortedIn(item, array, start, end) ==
  LET pivot    == start + ((end - start) \div 2)
      compared == compare(array[pivot + 1], item)
  IN  IF end - start <= 0 THEN -1
      ELSE IF end - start = 1 THEN (IF compared = 0 THEN pivot ELSE -1)
      ELSE IF compared = 0 THEN pivot
      ELSE IF compared = -1 THEN indexOfSortedIn(item, array, pivot, end)
      ELSE indexOfSortedIn(item, array, start, pivot)

indexOfSorted(item, array) == indexOfSortedIn(item, array, 0, Len(array))

\* array.indexOf(x): the first index that holds x, or -1 (0-based)
indexOf(array, x) ==
  IF \E i \in 1 .. Len(array) : array[i] = x
  THEN (CHOOSE i \in 1 .. Len(array) :
          array[i] = x /\ \A j \in 1 .. i - 1 : array[j] # x) - 1
  ELSE -1

\* this.pages[i]
pageAt(i) ==
  IF i >= 0 /\ i < Len(pages) THEN pages[i + 1] ELSE undefinedPage

pageFromCfi(cfi) ==
  IF Len(locations) = 0 THEN -1
  ELSE LET found == indexOfSorted(cfi, locations)
       IN  IF found # -1 THEN pageAt(found)
           ELSE LET at == locationOf(cfi, locations)
                    pg == IF at - 1 >= 0 THEN pageAt(at - 1) ELSE pageAt(0)
                IN  IF pg # undefinedPage THEN pg ELSE -1

cfiFromPage(pg) ==
  LET found == indexOf(pages, pg)
  IN  IF found # -1
      THEN (IF found < Len(locations) THEN locations[found + 1]
            ELSE Undefined)
      ELSE MinusOne

\* pageFromCfi with the splice of its comment carried out: the page found
\* for a CFI that is no entry is inserted into pages
PageFromCfiSplice(cfi) ==
  /\ ret.op = "none"
  /\ ret' = [op |-> "pageFromCfi", arg |-> cfi, val |-> pageFromCfi(cfi)]
  /\ pages' =
       IF locations # <<>> /\ indexOfSorted(cfi, locations) = -1
          /\ pageFromCfi(cfi) # -1
       THEN LET at == locationOf(cfi, locations)
            IN  SubSeq(pages, 1, at) \o <<pageFromCfi(cfi)>>
                  \o SubSeq(pages, at + 1, Len(pages))
       ELSE pages
  /\ UNCHANGED <<spine, index, q, awaited, loads, held, timers,
                 processingTimeout, promise, destroyed, history, pageList,
                 locations, firstPage, lastPage, totalPages, bookState,
                 others>>

PageFromCfiCall(cfi) ==
  /\ ret.op = "none"
  /\ ret' = [op |-> "pageFromCfi", arg |-> cfi, val |-> pageFromCfi(cfi)]
  /\ UNCHANGED <<spine, index, q, awaited, loads, held, timers,
                 processingTimeout, promise, destroyed, history, pagelist,
                 bookState, others>>

\* the page arguments tried: below, inside and above the page numbers
PageArgs == 0 .. MaxPage + 1

CfiFromPageCall(pg) ==
  /\ ret.op = "none"
  /\ ret' = [op |-> "cfiFromPage", arg |-> pg, val |-> cfiFromPage(pg)]
  /\ UNCHANGED <<spine, index, q, awaited, loads, held, timers,
                 processingTimeout, promise, destroyed, history, pagelist,
                 bookState, others>>

\* Math.round(n / d), d # 0: the nearest integer, a half rounded up
MathRound(n, d) ==
  IF d > 0 THEN (2 * n + d) \div (2 * d) ELSE (-2 * n - d) \div (-2 * d)

\* the thousandths percentageFromPage() rounds to
PerMille == 1000

\* percentageFromPage(pg): the fraction num / PerMille
percentageFromPage(pg) ==
  [num |-> MathRound(PerMille * (pg - firstPage), totalPages),
   den |-> PerMille]

\* pageFromPercentage(percent)
pageFromPercentage(percent) ==
  MathRound(totalPages * percent.num, percent.den)

\* the division by totalPages = 0 yields no number and is left out
PercentageFromPageCall(pg) ==
  /\ ret.op = "none"
  /\ totalPages # 0
  /\ ret' = [op |-> "percentageFromPage", arg |-> pg,
             val |-> percentageFromPage(pg)]
  /\ UNCHANGED <<spine, index, q, awaited, loads, held, timers,
                 processingTimeout, promise, destroyed, history, pagelist,
                 bookState, others>>

PageFromPercentageCall(percent) ==
  /\ ret.op = "none"
  /\ ret' = [op |-> "pageFromPercentage", arg |-> percent,
             val |-> pageFromPercentage(percent)]
  /\ UNCHANGED <<spine, index, q, awaited, loads, held, timers,
                 processingTimeout, promise, destroyed, history, pagelist,
                 bookState, others>>

(***************************************************************************)
(* Book.  open() has fetched the package document; unpack(packaging) runs  *)
(* in one piece, and every request it makes and every promise callback it  *)
(* registers runs later, as a step of its own.                             *)
(***************************************************************************)
\* the package documents: metadata.layout is "" or set; the navigation is
\* a toc of a JSON manifest (with or without a page list), a navigation
\* document (navPath or ncxPath), or there is none
Packagings ==
  [layout : {"", "reflowable"},
   nav : {"toc", "tocPageList", "navPath", "none"}]

\* settings.replacements
Replacements == {"undefined", "none", "blobUrl"}

\* this.archived || (settings.replacements && settings.replacements != "none")
replaces(b) == b.archived \/ b.replacements \notin {"undefined", "none"}

Resolved(v) == [state |-> "resolved", value |-> v]

\* unpack() that asks for the opened promise at once, replacements or not
opensAfterNothing(b) == "displayOptionsThen"

\* what unpack() starts last: the replacements, or the wait for
\* loaded.displayOptions that resolves book.opened
opensAfter(b) == IF replaces(b) THEN "replacements" ELSE "displayOptionsThen"

\* loadNavigation(packaging), the part that runs at once: the fields it
\* sets and what it leaves to run later
loadNavigation(p) ==
  IF p.nav \in {"toc", "tocPageList"}
  THEN [navigation |-> "Navigation",
        pageList |-> IF p.nav = "tocPageList" THEN "PageList"
                     ELSE "undefined",
        later |-> "loadNavigationThen"]
  ELSE IF p.nav = "none"
  THEN [navigation |-> "Navigation", pageList |-> "PageList",
        later |-> "loadNavigationThen"]
  ELSE [navigation |-> "undefined", pageList |-> "undefined",
        later |-> "navigationLoad"]

Unpack(p) ==
  /\ ~book.destroyed
  /\ book.packaging.nav = "undefined"
  /\ LET nav == loadNavigation(p)
     IN  /\ book' = [book EXCEPT
                       !.packaging = p,
                       !.displayOptions = IF p.layout = "" THEN @
                                          ELSE "DisplayOptions",
                       !.spineLoaded = TRUE,
                       !.navigation = nav.navigation,
                       !.pageList = nav.pageList,
                       !.isOpen = TRUE]
         /\ loading' = [loading EXCEPT
                          !.displayOptions = IF p.layout = "" THEN @
                                             ELSE Resolved("DisplayOptions"),
                          !.pageList = Resolved(nav.pageList)]
         /\ waiting' = waiting
                         \cup (IF p.layout = "" THEN {"displayOptionsLoad"}
                               ELSE {})
                         \cup {nav.later, opensAfter(book)}
  /\ completed' = completed \cup {"unpack"}
                    \cup (IF replaces(book) THEN {"replacementsCalled"}
                          ELSE {})
  /\ UNCHANGED <<indexState, others, rangePromise>>

\* the request for the display options settles: resolved or rejected, the
\* callback makes the DisplayOptions and resolves loading.displayOptions
\* (on a destroyed book this.loading is undefined and the callback throws)
DisplayOptionsLoad ==
  /\ "displayOptionsLoad" \in waiting
  /\ waiting' = waiting \ {"displayOptionsLoad"}
  /\ book' = [book EXCEPT !.displayOptions = "DisplayOptions"]
  /\ loading' = IF book.destroyed THEN loading
                ELSE [loading EXCEPT
                        !.displayOptions = Resolved("DisplayOptions")]
  /\ UNCHANGED <<indexState, others, completed, rangePromise>>

\* the request for the navigation document resolves
NavigationLoadResolve ==
  /\ "navigationLoad" \in waiting
  /\ waiting' = (waiting \ {"navigationLoad"}) \cup {"loadNavigationThen"}
  /\ book' = [book EXCEPT !.navigation = "Navigation",
                          !.pageList = "PageList"]
  /\ UNCHANGED <<indexState, others, loading, completed, rangePromise>>

\* the request for the navigation document is rejected: nothing handles it
NavigationLoadReject ==
  /\ "navigationLoad" \in waiting
  /\ waiting' = waiting \ {"navigationLoad"}
  /\ UNCHANGED <<indexState, others, book, loading, completed, rangePromise>>

\* the callback unpack() put on loadNavigation()
LoadNavigationThen ==
  /\ "loadNavigationThen" \in waiting
  /\ waiting' = waiting \ {"loadNavigationThen"}
  /\ loading' = IF book.destroyed THEN loading
                ELSE [loading EXCEPT
                        !.navigation = Resolved(book.navigation)]
  /\ completed' = completed \cup {"loadNavigation"}
  /\ UNCHANGED <<indexState, others, book, rangePromise>>

\* resources.replacements() resolves: the callback calls
\* resources.replaceCss() (this.resources is undefined on a destroyed book)
ReplacementsResolve ==
  /\ "replacements" \in waiting
  /\ waiting' = (waiting \ {"replacements"})
                  \cup (IF book.destroyed THEN {} ELSE {"replaceCss"})
  /\ completed' = completed \cup {"replacements"}
  /\ UNCHANGED <<indexState, others, book, loading, rangePromise>>

\* resources.replacements() is rejected: console.error(err)
ReplacementsReject ==
  /\ "replacements" \in waiting
  /\ waiting' = waiting \ {"replacements"}
  /\ UNCHANGED <<indexState, others, book, loading, completed, rangePromise>>

\* resources.replaceCss() resolves: the callback waits for
\* loaded.displayOptions (this.loaded is undefined on a destroyed book)
ReplaceCssResolve ==
  /\ "replaceCss" \in waiting
  /\ waiting' = (waiting \ {"replaceCss"})
                  \cup (IF book.destroyed THEN {} ELSE {"displayOptionsThen"})
  /\ completed' = completed \cup {"replaceCss"}
  /\ UNCHANGED <<indexState, others, book, loading, rangePromise>>

\* resources.replaceCss() is rejected: console.error(err)
ReplaceCssReject ==
  /\ "replaceCss" \in waiting
  /\ waiting' = waiting \ {"replaceCss"}
  /\ UNCHANGED <<indexState, others, book, loading, completed, rangePromise>>

\* loaded.displayOptions has resolved and the callback put on it runs:
\* this.opening.resolve(this)
OpeningResolve ==
  /\ "displayOptionsThen" \in waiting
  /\ loading.displayOptions.state = "resolved"
  /\ waiting' = waiting \ {"displayOptionsThen"}
  /\ loading' = [loading EXCEPT !.opening = Resolved("Book")]
  /\ UNCHANGED <<indexState, others, book, completed, rangePromise>>

\* book.destroy(): the fields are cleared; the callbacks registered stay
BookDestroy ==
  /\ ~book.destroyed
  /\ book' = [book EXCEPT !.destroyed = TRUE, !.isOpen = FALSE,
                          !.spineLoaded = FALSE, !.archived = FALSE,
                          !.navigation = "undefined",
                          !.pageList = "undefined"]
  /\ UNCHANGED <<indexState, others, loading, waiting, completed,
                 rangePromise>>


(***************************************************************************)
(* Book.getRange(cfiRange)                                                 *)
(***************************************************************************)
\* spine.get(index) for a number: this.spineItems[index] || null
spineGet(pos) ==
  IF book.spineLoaded /\ pos >= 0 /\ pos < NumSections THEN pos + 1
  ELSE None

\* cfi.findNode(steps, doc): the text node the path leads to, if the
\* document has one there
findNode(cfi, doc) ==
  LET node == (cfi.steps[Len(cfi.steps)].index + 1) \div 2
  IN  IF node >= 1 /\ node <= Len(doc) THEN node ELSE None

\* cfi.toRange(doc): the Range, or the error value NodeNotFound when a
\* step of the path has no node in the document
toRange(cfi, doc) ==
  IF findNode(cfi, doc) # None THEN "Range" ELSE "NodeNotFound"

\* the CFIs handed to getRange(): the start of a text node of a section,
\* or of a spine position the book does not have
RangeArgs ==
  {PointCfi(k, i, 0) : k \in 1 .. NumSections + 1, i \in 1 .. MaxNodes}

GetRange(cfi) ==
  /\ ~book.destroyed
  /\ rangePromise.state = "none"
  /\ rangePromise' =
       IF spineGet(cfi.spinePos) = None
       THEN [cfi |-> cfi, state |-> "rejected",
             value |-> "CFI could not be found"]
       ELSE [cfi |-> cfi, state |-> "pending", value |-> "none"]
  /\ UNCHANGED <<indexState, others, book, loading, waiting, completed>>

\* item.load() resolves and the callback returns cfi.toRange(item.document)
RangeLoadResolve ==
  /\ rangePromise.state = "pending"
  /\ rangePromise' =
       [rangePromise EXCEPT
          !.state = "resolved",
          !.value = toRange(rangePromise.cfi,
                            spine[rangePromise.cfi.spinePos + 1].contents)]
  /\ UNCHANGED <<indexState, others, book, loading, waiting, completed>>

\* item.load() is rejected: so is the promise of the chain
RangeLoadReject ==
  /\ rangePromise.state = "pending"
  /\ rangePromise' = [rangePromise EXCEPT !.state = "rejected",
                                           !.value = "load error"]
  /\ UNCHANGED <<indexState, others, book, loading, waiting, completed>>

(***************************************************************************)
(* generateFromWords(startCfi, wordCount, count).  A document handed to    *)
(* parseWords() is the sequence of the word counts of its text nodes       *)
(* (countWords(node.textContent)); 0 stands for a short node that holds    *)
(* only whitespace.                                                        *)
(***************************************************************************)
\* the while loop of the parser of parseWords()
RECURSIVE parserWordsLoop(_, _, _, _, _, _)
parserWordsLoop(s, k, node, len, pos, brk) ==
  IF pos >= len THEN s
  ELSE
    LET dist == brk - s.counter
    IN  IF pos + dist >= len
        THEN [s EXCEPT !.counter = @ + (len - pos)]
        ELSE parserWordsLoop(
               [s EXCEPT !.locations =
                           Append(@, [cfi |-> PointCfi(k, node, 0),
                                      wordCount |-> s.counter]),
                         !.counter = 0],
               k, node, len, pos + dist, brk)

\* the parser of parseWords(): one text node
parserWords(s, k, node, len, brk, startNode) ==
  IF ~s.found /\ node # startNode THEN s
  ELSE
    LET s1 == [s EXCEPT !.found = TRUE]
    IN  IF len <= 0 THEN s1
        ELSE IF brk - s1.counter > len
        THEN [s1 EXCEPT !.counter = @ + len]
        ELSE parserWordsLoop(s1, k, node, len, 0, brk)

RECURSIVE sprintWords(_, _, _, _, _, _)
sprintWords(s, k, doc, node, brk, startNode) ==
  IF node > Len(doc) THEN s
  ELSE sprintWords(parserWords(s, k, node, doc[node], brk, startNode),
                   k, doc, node + 1, brk, startNode)

\* parseWords(contents, section, wordCount, startCfi), with the word
\* counter it starts from: the locations and the counter it leaves
parseWords(doc, k, brk, start, counter) ==
  LET here == start.given /\ start.value.spinePos = k - 1
      s0   == [locations |-> <<>>, counter |-> counter,
               found |-> IF start.given THEN start.value.spinePos # k - 1
                         ELSE TRUE]
  IN  sprintWords(s0, k, doc, 1, brk,
                  IF here THEN findNode(start.value, doc) ELSE None)

\* the linear sections generateFromWords() enqueues
RECURSIVE wordSections(_, _, _)
wordSections(sp, s, start) ==
  IF s > NumSections THEN <<>>
  ELSE IF sp[s].linear /\ (start.given => s - 1 >= start.value.spinePos)
  THEN <<s>> \o wordSections(sp, s + 1, start)
  ELSE wordSections(sp, s + 1, start)

GenerateFromWords(start, wordCount, count) ==
  /\ ~destroyed
  /\ ~q.running
  /\ promise = "none"
  /\ _locationsWords' = <<>>
  /\ _wordCounter' = 0
  /\ wordsRun' = [wordCount |-> wordCount, start |-> start, count |-> count,
                  on |-> TRUE]
  /\ enqueueAndRun(wordSections(spine, 1, start))
  /\ promise' = "pending"
  /\ UNCHANGED <<destroyed, ret, spine, index, awaited, loads, held, timers,
                 processingTimeout, history, pagelist, bookState, pausing,
                 urls, navigation, more>>

\* processWords(): what _locationsWords becomes once the section is parsed
concatWords(parsed, count) ==
  IF count.given /\ Len(parsed) >= count.value
  THEN _locationsWords
         \o SubSeq(parsed, 1, count.value - Len(_locationsWords))
  ELSE _locationsWords \o parsed

\* the queue takes the next processWords() task: it is over at once when
\* the count is reached, and requests the load of the section otherwise
DequeueWords ==
  /\ wordsRun.on
  /\ q.running
  /\ ~q.paused
  /\ awaited = None
  /\ q._q # <<>>
  /\ q' = [q EXCEPT !._q = Tail(@)]
  /\ IF wordsRun.count.given
        /\ Len(_locationsWords) >= wordsRun.count.value
     THEN UNCHANGED <<loads, held, awaited, started>>
     ELSE /\ process(Head(q._q))
          /\ started' = Append(started, Head(q._q))
  /\ UNCHANGED <<destroyed, ret, spine, index, timers, processingTimeout,
                 promise, genCount, loadCount, base, tail, appended, failed,
                 faulted, pagelist, bookState, others>>

\* the continuation of processWords(): section.load() resolved
LoadResolveWords(k) ==
  /\ wordsRun.on
  /\ ~destroyed
  /\ k \in loads
  /\ loads' = loads \ {k}
  /\ LET parsed == parseWords(spine[k].contents, k, wordsRun.wordCount,
                              wordsRun.start, _wordCounter)
     IN  /\ _locationsWords' = concatWords(parsed.locations, wordsRun.count)
         /\ _wordCounter' = parsed.counter
  /\ held' = held \ {k}
  /\ timers' = timers \cup {k}
  /\ processingTimeout' = k
  /\ processingDelay' = pause
  /\ appended' = Append(appended, k)
  /\ UNCHANGED <<destroyed, ret, spine, index, q, awaited, promise, genCount,
                 loadCount, base, tail, started, failed, faulted, pagelist,
                 bookState, wordsRun, pause, pauseArg, urls, navigation,
                 more>>

\* the queue is drained: generateFromWords()'s continuation returns
\* _locationsWords
RunResolveWords ==
  /\ wordsRun.on
  /\ q.running
  /\ ~q.paused
  /\ awaited = None
  /\ q._q = <<>>
  /\ q' = [q EXCEPT !.running = FALSE]
  /\ promise' = "resolved"
  /\ wordsRun' = [wordsRun EXCEPT !.on = FALSE]
  /\ UNCHANGED <<destroyed, ret, spine, index, awaited, loads, held, timers,
                 processingTimeout, history, pagelist, bookState,
                 _locationsWords, _wordCounter, pausing, urls, navigation,
                 more>>

(***************************************************************************)
(* Archive and Store: createUrl(), revokeUrl() and destroy().  The two     *)
(* classes hold the same code; o names the object.                         *)
(***************************************************************************)
\* the temporary URL of the blob URL created as the id-th one
BlobUrl(id) == [kind |-> "blob", id |-> id]

\* the data: URL getBase64() makes of a file
DataUrl(f) == [kind |-> "data", id |-> f]

\* _URL.revokeObjectURL(url): a blob URL is released, any other string
\* (a data: URL, a path) is left alone
revokeObjectURL(urlList, url) ==
  IF url.kind = "blob"
  THEN [urlList EXCEPT ![url.id] = [@ EXCEPT !.revoked = TRUE]]
  ELSE urlList

\* a path of a file, handed where a URL is expected
PathString(f) == [kind |-> "path", id |-> f]

\* createUrl(url, options) for a url that is not cached: the file is
\* requested from the archive or the store
CreateUrl(o, f, useBase64) ==
  /\ urlCache[o][f] = NoUrl
  /\ Len(objectURLs) + Cardinality(responses) < MaxUrls
  /\ responses' = responses \cup {[owner |-> o, url |-> f,
                                   base64 |-> useBase64]}
  /\ UNCHANGED <<indexState, bookState, words, pausing, urlCache, objectURLs,
                 navigation, more>>

\* the response of getBlob() or getBase64() arrives: the temporary URL is
\* made and stored in the cache
Respond(r) ==
  /\ r \in responses
  /\ responses' = responses \ {r}
  /\ IF r.base64
     THEN /\ urlCache' = [urlCache EXCEPT ![r.owner][r.url] = DataUrl(r.url)]
          /\ UNCHANGED objectURLs
     ELSE /\ objectURLs' = Append(objectURLs,
                                  [owner |-> r.owner, url |-> r.url,
                                   revoked |-> FALSE])
          /\ urlCache' = [urlCache EXCEPT
                            ![r.owner][r.url] = BlobUrl(Len(objectURLs) + 1)]
  /\ UNCHANGED <<indexState, bookState, words, pausing, navigation, more>>

\* revokeUrl(url)
RevokeUrl(o, f) ==
  /\ urlCache[o][f] # NoUrl
  /\ objectURLs' = revokeObjectURL(objectURLs, urlCache[o][f])
  /\ UNCHANGED <<indexState, bookState, words, pausing, urlCache, responses,
                 navigation, more>>

\* the loop of destroy(): for (let fromCache in this.urlCache) hands every
\* key of the cache to revokeObjectURL
RECURSIVE revokeKeys(_, _, _)
revokeKeys(urlList, cache, f) ==
  IF f > MaxFiles THEN urlList
  ELSE revokeKeys(IF cache[f] # NoUrl
                  THEN revokeObjectURL(urlList, PathString(f))
                  ELSE urlList,
                  cache, f + 1)

\* destroy()
UrlDestroy(o) ==
  /\ urlCache[o] # EmptyCache
  /\ objectURLs' = revokeKeys(objectURLs, urlCache[o], 1)
  /\ urlCache' = [urlCache EXCEPT ![o] = EmptyCache]
  /\ UNCHANGED <<indexState, bookState, words, pausing, responses,
                 navigation, more>>

(***************************************************************************)
(* Navigation: unpack(), get() and getByIndex().  An item of the TOC is a  *)
(* record of its id, its href and its subitems; a target is the name       *)
(* asked for and whether a '#' stands before it.  An item found is told by *)
(* the path of 0-based positions that leads to it.                         *)
(***************************************************************************)
\* unpack(toc), from item i on
RECURSIVE unpack(_, _, _)
unpack(nav, toc, i) ==
  IF i >= Len(toc) THEN nav
  ELSE LET item     == toc[i + 1]
           noted    == [nav EXCEPT !.tocByHref[item.href] = i,
                                   !.tocById[item.id] = i,
                                   !.length = @ + 1]
           unpacked == IF Len(item.subitems) > 0
                       THEN unpack(noted, item.subitems, 0)
                       ELSE noted
       IN  unpack(unpacked, toc, i + 1)

\* new Navigation(xml), the document parsed to the list toc
Navigation(toc) == unpack([NewNavigation EXCEPT !.toc = toc], toc, 0)

\* the string get() was handed
TargetString(target) ==
  IF target.hash THEN <<"#", target.name>> ELSE <<target.name>>

\* target === item.id || target === item.href
targetIs(target, item) ==
  \/ TargetString(target) = <<item.id>>
  \/ TargetString(target) = <<item.href>>

\* getByIndex() returning undefined
NotFound == [found |-> FALSE, path |-> <<>>]

\* getByIndex(target, index, navItems), navItems being the list at path at
RECURSIVE getByIndex(_, _, _, _)
RECURSIVE getInSubitems(_, _, _, _, _)
getByIndex(target, idx, navItems, at) ==
  IF Len(navItems) = 0 THEN NotFound
  ELSE IF /\ idx # NoIndex
          /\ idx < Len(navItems)
          /\ targetIs(target, navItems[idx + 1])
       THEN [found |-> TRUE, path |-> Append(at, idx)]
       ELSE getInSubitems(target, idx, navItems, at, 0)

\* the loop of getByIndex() over the subitems of every item, from item i on
getInSubitems(target, idx, navItems, at, i) ==
  IF i >= Len(navItems) THEN NotFound
  ELSE LET result == getByIndex(target, idx, navItems[i + 1].subitems,
                                Append(at, i))
       IN  IF result.found THEN result
           ELSE getInSubitems(target, idx, navItems, at, i + 1)

\* get(target), for a target that is not empty
navigationGet(nav, target) ==
  LET idx == IF target.hash THEN nav.tocById[target.name]
             ELSE nav.tocByHref[target.name]
  IN  getByIndex(target, idx, nav.toc, <<>>)

Targets == [hash : BOOLEAN, name : Names]

\* this.navigation = new Navigation(xml)
NavigationNew(toc) ==
  /\ navigation' = Navigation(toc)
  /\ UNCHANGED <<indexState, bookState, words, pausing, urls, more>>

NavGet(target) ==
  /\ ret.op = "none"
  /\ ret' = [op |-> "get", arg |-> target,
             val |-> navigationGet(navigation, target)]
  /\ UNCHANGED <<spine, index, q, awaited, loads, held, timers,
                 processingTimeout, promise, destroyed, history, pagelist,
                 bookState, others>>

(***************************************************************************)
(* parse() step by step: the walk of sprint over the text nodes, and for   *)
(* every node the while loop of parser, one iteration at a time.           *)
(***************************************************************************)
\* one iteration of the while loop of parser(node) with the counter left
\* as it was where the code resets it
loopStepNoReset(s, k, node, len, pos, brk) ==
  LET dist == brk - s.counter
      pos1 == IF s.counter = 0 THEN pos + 1 ELSE pos
  IN  IF pos1 + dist >= len
      THEN [s |-> [s EXCEPT !.counter = @ + (len - pos1)], pos |-> len]
      ELSE [s |-> [s EXCEPT !.locations = Append(@, RangeCfi(k, s.range))],
            pos |-> pos1 + dist]

\* one iteration of the while loop of parser(node), entered with pos < len
loopStep(s, k, node, len, pos, brk) ==
  LET dist == brk - s.counter
      pos1 == IF s.counter = 0 THEN pos + 1 ELSE pos
      s1   == IF s.counter = 0
              THEN [s EXCEPT !.range = [createRange EXCEPT
                                          !.startContainer = node,
                                          !.startOffset = pos1]]
              ELSE s
  IN  IF pos1 + dist >= len
      THEN [s |-> [s1 EXCEPT !.counter = @ + (len - pos1)], pos |-> len]
      ELSE
        LET pos2 == pos1 + dist
            rng  == [s1.range EXCEPT !.endContainer = node,
                                     !.endOffset = pos2]
        IN  [s |-> [s1 EXCEPT !.range = rng,
                              !.locations = Append(@, RangeCfi(k, rng)),
                              !.counter = 0],
             pos |-> pos2]

\* parse(contents, cfiBase, chars) is called: sprint is about to visit the
\* first text node
ParseBegin(k, chars) ==
  /\ ~destroyed
  /\ parseRun.at = "idle"
  /\ parseRun' = [NoParseRun EXCEPT
                    !.at = "node", !.doc = spine[k].contents, !.section = k,
                    !.brk = IF chars # 0 THEN chars ELSE break, !.node = 1]
  /\ UNCHANGED <<indexState, bookState, words, pausing, urls, navigation,
                 current, spineObj, resources, rendition>>

\* parser(node) up to its while loop; a whitespace node returns at once
ParserEnter ==
  /\ parseRun.at = "node"
  /\ parseRun.node <= Len(parseRun.doc)
  /\ LET node == parseRun.node
         len  == parseRun.doc[node]
         s    == parseRun.s
         s1   == IF s.counter = 0
                 THEN [s EXCEPT !.range = [createRange EXCEPT
                                             !.startContainer = node,
                                             !.startOffset = 0]]
                 ELSE s
         dist == parseRun.brk - s1.counter
     IN  IF len <= 0
         THEN parseRun' = [parseRun EXCEPT !.node = node + 1]
         ELSE parseRun' =
                [parseRun EXCEPT
                   !.at = "loop", !.len = len,
                   !.s = IF dist > len THEN [s1 EXCEPT !.counter = @ + len]
                         ELSE s1,
                   !.pos = IF dist > len THEN len ELSE 0]
  /\ UNCHANGED <<indexState, bookState, words, pausing, urls, navigation,
                 current, spineObj, resources, rendition>>

\* while (pos < len): one iteration
ParserLoop ==
  /\ parseRun.at = "loop"
  /\ parseRun.pos < parseRun.len
  /\ LET after == loopStep(parseRun.s, parseRun.section, parseRun.node,
                           parseRun.len, parseRun.pos, parseRun.brk)
     IN  parseRun' = [parseRun EXCEPT !.s = after.s, !.pos = after.pos]
  /\ UNCHANGED <<indexState, bookState, words, pausing, urls, navigation,
                 current, spineObj, resources, rendition>>

\* the loop is left: prev = node, and sprint goes on to the next node
ParserReturn ==
  /\ parseRun.at = "loop"
  /\ parseRun.pos >= parseRun.len
  /\ parseRun' = [parseRun EXCEPT !.at = "node", !.node = @ + 1,
                                  !.s = [@ EXCEPT !.prev = parseRun.node]]
  /\ UNCHANGED <<indexState, bookState, words, pausing, urls, navigation,
                 current, spineObj, resources, rendition>>

\* sprint is through: the remaining range is closed and parse() returns
ParseClose ==
  /\ parseRun.at = "node"
  /\ parseRun.node > Len(parseRun.doc)
  /\ LET s == parseRun.s
     IN  parseRun' =
           [parseRun EXCEPT
              !.at = "done",
              !.s = IF s.range.startContainer # None /\ s.prev # None
                    THEN [s EXCEPT
                            !.locations =
                              Append(@, RangeCfi(parseRun.section,
                                                 [s.range EXCEPT
                                                    !.endContainer = s.prev,
                                                    !.endOffset =
                                                      parseRun.doc[s.prev]]))]
                    ELSE s]
  /\ UNCHANGED <<indexState, bookState, words, pausing, urls, navigation,
                 current, spineObj, resources, rendition>>

(***************************************************************************)
(* Spine: unpack(), get(), append(), prepend() and remove().  A section is *)
(* the record of its idref, its linear flag, whether its href is plain     *)
(* (encodeURI leaves it as it is) and its index field.  sp is the Spine.   *)
(***************************************************************************)
\* section.href, decodeURI(section.href) and encodeURI(section.href)
hrefOf(section) == [name |-> section.id, encoded |-> FALSE]
decodeURI(h) == [h EXCEPT !.encoded = FALSE]
encodeURI(h, plain) == [h EXCEPT !.encoded = ~plain]

\* the Section objects handed to the Spine
SpineSections ==
  [id : SpineIds, linear : BOOLEAN, plain : BOOLEAN, index : {NoIndex}]

\* null, returned by get()
NoSection == [id |-> 0, linear |-> FALSE, plain |-> TRUE, index |-> NoIndex]

\* this.spineItems[index] || null
itemAtIndex(sp, idx) ==
  IF idx # NoIndex /\ idx >= 0 /\ idx < Len(sp.spineItems)
  THEN sp.spineItems[idx + 1]
  ELSE NoSection

\* get(target) of a number
getByNumber(sp, target) == itemAtIndex(sp, target)

\* get(target) of an href without fragment: 0 and undefined are falsy, so
\* the encoded key is tried for them
getByHref(sp, target, plain) ==
  LET first == sp.spineByHref[target]
  IN  itemAtIndex(sp, IF first # NoIndex /\ first # 0 THEN first
                      ELSE sp.spineByHref[encodeURI(target, plain)])

\* get(target) of "#" + idref
getById(sp, id) == itemAtIndex(sp, sp.spineById[id])

\* append(section)
append(sp, section) ==
  LET idx == Len(sp.spineItems)
      h   == hrefOf(section)
  IN  [spineItems |-> Append(sp.spineItems, [section EXCEPT !.index = idx]),
       spineByHref |-> [sp.spineByHref EXCEPT
                          ![decodeURI(h)] = idx,
                          ![encodeURI(h, section.plain)] = idx,
                          ![h] = idx],
       spineById |-> [sp.spineById EXCEPT ![section.id] = idx]]

\* prepend(section): the unshift is commented out, the section is not put
\* into spineItems
prepend(sp, section) ==
  [spineItems |-> [i \in 1 .. Len(sp.spineItems) |->
                     [sp.spineItems[i] EXCEPT !.index = i - 1]],
   spineByHref |-> [sp.spineByHref EXCEPT ![hrefOf(section)] = 0],
   spineById |-> [sp.spineById EXCEPT ![section.id] = 0]]

\* this.spineItems.indexOf(section): the position of the object, or -1
positionOf(sp, section) ==
  IF \E i \in 1 .. Len(sp.spineItems) : sp.spineItems[i].id = section.id
  THEN (CHOOSE i \in 1 .. Len(sp.spineItems) :
          sp.spineItems[i].id = section.id) - 1
  ELSE -1

\* remove(section)
remove(sp, section) ==
  LET idx == positionOf(sp, section)
  IN  IF idx > -1
      THEN [spineItems |-> SubSeq(sp.spineItems, 1, idx)
                             \o SubSeq(sp.spineItems, idx + 2,
                                       Len(sp.spineItems)),
            spineByHref |-> [sp.spineByHref EXCEPT
                               ![hrefOf(section)] = NoIndex],
            spineById |-> [sp.spineById EXCEPT ![section.id] = NoIndex]]
      ELSE sp

\* unpack(): every item of the package is given its index and appended
RECURSIVE unpackItems(_, _, _)
unpackItems(sp, items, i) ==
  IF i >= Len(items) THEN sp
  ELSE unpackItems(append(sp, [items[i + 1] EXCEPT !.index = i]), items,
                   i + 1)

\* item.prev(), the loop from prevIndex on, for a linear item
RECURSIVE prevFrom(_, _)
prevFrom(sp, prevIndex) ==
  IF prevIndex > 0
  THEN LET prev == getByNumber(sp, prevIndex - 1)
       IN  IF prev # NoSection /\ prev.linear THEN prev
           ELSE prevFrom(sp, prevIndex - 1)
  ELSE NoSection

\* item.next(), the loop from nextIndex on, for a linear item
RECURSIVE nextFrom(_, _)
nextFrom(sp, nextIndex) ==
  IF nextIndex < Len(sp.spineItems) - 1
  THEN LET next == getByNumber(sp, nextIndex + 1)
       IN  IF next # NoSection /\ next.linear THEN next
           ELSE nextFrom(sp, nextIndex + 1)
  ELSE NoSection

\* item.next() that never looks beyond the section right after
nextAdjacent(sp, item) ==
  IF item.linear
  THEN LET next == getByNumber(sp, item.index + 1)
       IN  IF next # NoSection /\ next.linear THEN next ELSE NoSection
  ELSE NoSection

\* item.prev() and item.next() as unpack() defines them
sectionPrev(sp, item) ==
  IF item.linear THEN prevFrom(sp, item.index) ELSE NoSection
sectionNext(sp, item) ==
  IF item.linear THEN nextFrom(sp, item.index) ELSE NoSection

\* the lists of sections of a package: no idref comes twice
SpineLists ==
  {items \in UNION {[1 .. n -> SpineSections] : n \in 0 .. MaxSpineItems} :
     \A i, j \in 1 .. Len(items) : items[i].id = items[j].id => i = j}

\* the section is not in the Spine yet
NotInSpine(section) ==
  \A i \in 1 .. Len(spineObj.spineItems) :
    spineObj.spineItems[i].id # section.id

\* spine.unpack(packaging, resolver, canonical) on the new Spine
SpineUnpack(items) ==
  /\ spineObj' = unpackItems(NewSpine, items, 0)
  /\ UNCHANGED <<indexState, bookState, words, pausing, urls, navigation,
                 parseRun, current, resources, rendition>>

\* spine.append(section) of a section that is not in the Spine
SpineAppend(section) ==
  /\ Len(spineObj.spineItems) < MaxSpineItems
  /\ NotInSpine(section)
  /\ spineObj' = append(spineObj, section)
  /\ UNCHANGED <<indexState, bookState, words, pausing, urls, navigation,
                 parseRun, current, resources, rendition>>

\* spine.prepend(section) of a section that is not in the Spine
SpinePrepend(section) ==
  /\ NotInSpine(section)
  /\ spineObj' = prepend(spineObj, section)
  /\ UNCHANGED <<indexState, bookState, words, pausing, urls, navigation,
                 parseRun, current, resources, rendition>>

\* spine.remove(section) of the section at position i
SpineRemove(i) ==
  /\ i \in 1 .. Len(spineObj.spineItems)
  /\ spineObj' = remove(spineObj, spineObj.spineItems[i])
  /\ UNCHANGED <<indexState, bookState, words, pausing, urls, navigation,
                 parseRun, current, resources, rendition>>

\* section.prev() and section.next() of the section at position i
SectionNeighbours(i) ==
  /\ ret.op = "none"
  /\ i \in 1 .. Len(spineObj.spineItems)
  /\ ret' = [op |-> "neighbours", arg |-> i,
             val |-> [prev |-> sectionPrev(spineObj, spineObj.spineItems[i]),
                      next |-> sectionNext(spineObj, spineObj.spineItems[i])]]
  /\ UNCHANGED <<spine, index, q, awaited, loads, held, timers,
                 processingTimeout, promise, destroyed, history, pagelist,
                 bookState, others>>

(***************************************************************************)
(* Resources: process(), replacements(), replaceCss() and get().  The      *)
(* assets of the manifest are numbered in the order of its keys; asset a   *)
(* has the href a.                                                         *)
(***************************************************************************)
\* the URL created for asset a, and the URL of its rewritten CSS text
Replacement(a) == [for |-> a, css |-> FALSE]
CssReplacement(a) == [for |-> a, css |-> TRUE]

\* undefined: an element of replacementUrls that was never set
NoReplacement == [for |-> 0, css |-> FALSE]

\* the manifests: n assets, those of cssAssets with type text/css
Manifests ==
  {[n |-> n, css |-> c] : n \in 0 .. MaxAssets, c \in SUBSET (1 .. MaxAssets)}
    \ {m \in [n : 0 .. MaxAssets, css : SUBSET (1 .. MaxAssets)] :
         \E a \in m.css : a > m.n}

\* the ascending sequence of the numbers of S that are at most n
RECURSIVE ascending(_, _)
ascending(S, n) ==
  IF n = 0 THEN <<>>
  ELSE IF n \in S THEN Append(ascending(S, n - 1), n)
       ELSE ascending(S, n - 1)

\* this.urls.indexOf(href), 0-based, -1 when href is no asset
indexInUrls(res, href) ==
  IF \E i \in 1 .. Len(res.urls) : res.urls[i] = href
  THEN (CHOOSE i \in 1 .. Len(res.urls) : res.urls[i] = href) - 1
  ELSE -1

\* array[idx] = v on a JavaScript array: the array grows as needed
putAt(array, idx, v) ==
  [i \in 1 .. (IF idx + 1 > Len(array) THEN idx + 1 ELSE Len(array)) |->
     IF i = idx + 1 THEN v
     ELSE IF i <= Len(array) THEN array[i] ELSE NoReplacement]

\* what Promise.all(replacements) resolves with
createdUrls(res) ==
  [i \in 1 .. Len(res.requests) |->
     IF res.requests[i] = "string" THEN Replacement(res.urls[i])
     ELSE NoReplacement]

\* replacementUrls.filter(url => typeof url === "string")
filterStrings(res) ==
  LET created == createdUrls(res)
      kept    == ascending({i \in 1 .. Len(created) :
                              res.requests[i] = "string"}, Len(created))
  IN  [j \in 1 .. Len(kept) |-> created[kept[j]]]

\* new Resources(manifest, options): process(manifest)
ResourcesNew(manifest) ==
  /\ resources' = [NoResources EXCEPT
                     !.urls = [i \in 1 .. manifest.n |-> i],
                     !.cssUrls = ascending(manifest.css, manifest.n)]
  /\ UNCHANGED <<indexState, bookState, words, pausing, urls, navigation,
                 parseRun, current, spineObj, rendition>>

\* replacements(), the setting not being "none": createUrl() is called for
\* every asset
ResourcesReplacements ==
  /\ resources.state = "new"
  /\ Len(resources.urls) > 0
  /\ resources' = [resources EXCEPT
                     !.state = "running",
                     !.requests = [i \in 1 .. Len(resources.urls) |->
                                     "pending"]]
  /\ UNCHANGED <<indexState, bookState, words, pausing, urls, navigation,
                 parseRun, current, spineObj, rendition>>

\* createUrl(absolute) of asset i resolves with a URL
CreateUrlResolve(i) ==
  /\ resources.state = "running"
  /\ i \in 1 .. Len(resources.requests)
  /\ resources.requests[i] = "pending"
  /\ resources' = [resources EXCEPT !.requests[i] = "string"]
  /\ UNCHANGED <<indexState, bookState, words, pausing, urls, navigation,
                 parseRun, current, spineObj, rendition>>

\* createUrl(absolute) of asset i is rejected: the catch returns null
CreateUrlReject(i) ==
  /\ resources.state = "running"
  /\ i \in 1 .. Len(resources.requests)
  /\ resources.requests[i] = "pending"
  /\ resources' = [resources EXCEPT !.requests[i] = "null"]
  /\ UNCHANGED <<indexState, bookState, words, pausing, urls, navigation,
                 parseRun, current, spineObj, rendition>>

\* Promise.all(replacements).then(...): every createUrl() is settled
ReplacementsThen ==
  /\ resources.state = "running"
  /\ \A i \in 1 .. Len(resources.requests) :
       resources.requests[i] # "pending"
  /\ resources' = [resources EXCEPT
                     !.state = "resolved",
                     !.replacementUrls = filterStrings(resources)]
  /\ UNCHANGED <<indexState, bookState, words, pausing, urls, navigation,
                 parseRun, current, spineObj, rendition>>

\* replaceCss(): createCssFile(href) resolved with the URL of the new text
ReplaceCssThen(href) ==
  /\ resources.state = "resolved"
  /\ \E j \in 1 .. Len(resources.cssUrls) : resources.cssUrls[j] = href
  /\ LET idx == indexInUrls(resources, href)
     IN  /\ idx > -1
         /\ resources' = [resources EXCEPT
                            !.replacementUrls =
                              putAt(@, idx, CssReplacement(href))]
  /\ UNCHANGED <<indexState, bookState, words, pausing, urls, navigation,
                 parseRun, current, spineObj, rendition>>

\* get(path) of an asset, the replacements being there
ResourcesGet(path) ==
  /\ ret.op = "none"
  /\ resources.state = "resolved"
  /\ indexInUrls(resources, path) # -1
  /\ Len(resources.replacementUrls) > 0
  /\ LET idx == indexInUrls(resources, path)
     IN  ret' = [op |-> "resourcesGet", arg |-> path,
                 val |-> IF idx < Len(resources.replacementUrls)
                         THEN resources.replacementUrls[idx + 1]
                         ELSE NoReplacement]
  /\ UNCHANGED <<spine, index, q, awaited, loads, held, timers,
                 processingTimeout, promise, destroyed, history, pagelist,
                 bookState, others>>

(***************************************************************************)
(* Rendition: display(), _display() and destroy().  rendition.displays[i]  *)
(* is the i-th call of display(): the promise the queue returned for it is *)
(* settled as the promise that _display() returns, or resolved with        *)
(* undefined when _display() returns nothing.  Targets are spine           *)
(* positions, which isFloat() does not take for percentages.               *)
(***************************************************************************)
\* what a promise was settled with
Unsettled == [kind |-> "none", index |-> NoIndex]
ResolvedUndefined == [kind |-> "undefined", index |-> NoIndex]
NoSectionFound == [kind |-> "error", index |-> NoIndex]
SectionValue(section) == [kind |-> "section", index |-> section.index]

\* q.enqueue(this._display, target): the task waits in the queue
Enqueued(target) ==
  [target |-> target, state |-> "queued", result |-> Unsettled,
   found |-> "unknown", manager |-> "none"]

\* deferred.resolve(value) and deferred.reject(value): a settled promise
\* stays as it is
resolveDefer(d, value) ==
  IF d.state = "running"
  THEN [d EXCEPT !.state = "resolved", !.result = value]
  ELSE d

rejectDefer(d, value) ==
  IF d.state = "running"
  THEN [d EXCEPT !.state = "rejected", !.result = value]
  ELSE d

\* the task the queue runs next, 0 when it runs none: the tasks run one at
\* a time, each after the promise of the one before it was settled
nextTask(r) ==
  IF \/ \E i \in 1 .. Len(r.displays) : r.displays[i].state = "running"
     \/ \A i \in 1 .. Len(r.displays) : r.displays[i].state # "queued"
  THEN 0
  ELSE CHOOSE i \in 1 .. Len(r.displays) :
         /\ r.displays[i].state = "queued"
         /\ \A j \in 1 .. i - 1 : r.displays[j].state # "queued"

\* display(target)
Display(target) ==
  /\ Len(rendition.displays) < MaxDisplays
  /\ LET d == rendition.displaying
         resolved ==
           IF d # NoDisplay
           THEN [rendition.displays EXCEPT
                   ![d] = resolveDefer(@, ResolvedUndefined)]
           ELSE rendition.displays
     IN  rendition' = [rendition EXCEPT
                         !.displays = Append(resolved, Enqueued(target))]
  /\ UNCHANGED <<indexState, bookState, words, pausing, urls, navigation,
                 parseRun, current, spineObj, resources>>

\* _display(target), run by the queue
RunDisplay ==
  /\ nextTask(rendition) # 0
  /\ LET i == nextTask(rendition)
         section == getByNumber(spineObj, rendition.displays[i].target)
     IN  rendition' =
           IF ~rendition.book
           THEN [rendition EXCEPT
                   !.displays[i] =
                     [@ EXCEPT !.state = "resolved",
                               !.result = ResolvedUndefined]]
           ELSE IF section = NoSection
           THEN [rendition EXCEPT
                   !.displaying = i,
                   !.displays[i] =
                     [@ EXCEPT !.state = "rejected",
                               !.result = NoSectionFound,
                               !.found = "no"]]
           ELSE [rendition EXCEPT
                   !.displaying = i,
                   !.displays[i] =
                     [@ EXCEPT !.state = "running", !.found = "yes",
                               !.manager = "pending"]]
  /\ UNCHANGED <<indexState, bookState, words, pausing, urls, navigation,
                 parseRun, current, spineObj, resources>>

\* manager.display(section, target) of the i-th call resolves
ManagerResolve(i) ==
  /\ i \in 1 .. Len(rendition.displays)
  /\ rendition.displays[i].manager = "pending"
  /\ LET d == rendition.displays[i]
         section == getByNumber(spineObj, d.target)
     IN  rendition' = [rendition EXCEPT
                         !.displaying = NoDisplay,
                         !.displays[i] =
                           resolveDefer([d EXCEPT !.manager = "ok"],
                                   SectionValue(section))]
  /\ UNCHANGED <<indexState, bookState, words, pausing, urls, navigation,
                 parseRun, current, spineObj, resources>>

\* manager.display(section, target) of the i-th call is rejected
ManagerReject(i) ==
  /\ i \in 1 .. Len(rendition.displays)
  /\ rendition.displays[i].manager = "pending"
  /\ rendition' = [rendition EXCEPT !.displays[i].manager = "failed"]
  /\ UNCHANGED <<indexState, bookState, words, pausing, urls, navigation,
                 parseRun, current, spineObj, resources>>

\* rendition.destroy()
RenditionDestroy ==
  /\ rendition.book
  /\ rendition' = [rendition EXCEPT !.book = FALSE]
  /\ UNCHANGED <<indexState, bookState, words, pausing, urls, navigation,
                 parseRun, current, spineObj, resources>>

Next ==
  \/ \E chars \in 0 .. MaxBreak : Generate(chars)
  \/ Dequeue
  \/ \E k \in Sections : LoadResolve(k)
  \/ \E k \in Sections : LoadRejectSkip(k)
  \/ \E k \in Sections : LoadRejectAbort(k)
  \/ \E k \in Sections : TimerFire(k)
  \/ RunResolve
  \/ \E l \in LoadInputs : Load(l)
  \/ Destroy

Spec == Init /\ [][Next]_vars

(***************************************************************************)
(* The index under use: it is built by one generate() and by load()        *)
(* (every section load resolves, nobody destroys the index) and queried at *)
(* any moment.                                                             *)
(***************************************************************************)
NextQuery ==
  \/ \E chars \in 0 .. MaxBreak : genCount = 0 /\ Generate(chars)
  \/ Dequeue
  \/ \E k \in Sections : LoadResolve(k)
  \/ \E k \in Sections : TimerFire(k)
  \/ RunResolve
  \/ \E l \in LoadInputs : Load(l)
  \/ \E cfi \in Cfis : LocationFromCfiCall(cfi)
  \/ \E loc \in LocArgs : PercentageFromLocationCall(loc)
  \/ \E loc \in LocArgs : CfiFromLocationCall(loc)
  \/ \E percentage \in Percentages : CfiFromPercentageCall(percentage)
  \/ SaveCall

SpecQuery == Init /\ [][NextQuery]_vars

(***************************************************************************)
(* generate() left to run: every section load resolves, every pause timer  *)
(* fires, the queue takes its next task whenever it can, and destroy() is  *)
(* not called.                                                             *)
(***************************************************************************)
NextLive ==
  \/ \E chars \in 0 .. MaxBreak : Generate(chars)
  \/ Dequeue
  \/ \E k \in Sections : LoadResolve(k)
  \/ \E k \in Sections : TimerFire(k)
  \/ RunResolve

\* one step of a run that is under way
Progress ==
  \/ Dequeue
  \/ \E k \in Sections : LoadResolve(k)
  \/ \E k \in Sections : TimerFire(k)
  \/ RunResolve

Fairness == WF_vars(Progress)

LiveSpec == Init /\ [][NextLive]_vars /\ Fairness

(***************************************************************************)
(* parse(contents, cfiBase, chars) called on the document of a section:    *)
(* chars = 0 stands for a call without the argument.                       *)
(***************************************************************************)
ParseCall(k, chars) ==
  /\ ~destroyed
  /\ ret.op = "none"
  /\ ret' = [op |-> "parse", arg |-> [section |-> k, chars |-> chars],
             val |-> parse(spine[k].contents, k,
                           IF chars # 0 THEN chars ELSE break)]
  /\ UNCHANGED <<spine, index, q, awaited, loads, held, timers,
                 processingTimeout, promise, destroyed, history, pagelist,
                 bookState, others>>

\* the documents handed to parse() directly
ParseDocs ==
  UNION {[1 .. n -> -MaxTextLen .. MaxTextLen] : n \in 0 .. MaxNodes}

\* a book of which one section holds a document of any shape
ParseSpines ==
  {[j \in Sections |->
      [linear |-> TRUE, contents |-> IF j = k THEN d ELSE <<>>]] :
     k \in Sections, d \in ParseDocs}

InitParse ==
  /\ spine \in ParseSpines
  /\ _locations = <<>>
  /\ total = 0
  /\ break = DefaultBreak
  /\ q = [_q |-> <<>>, running |-> FALSE, paused |-> FALSE]
  /\ awaited = None
  /\ loads = {}
  /\ held = {}
  /\ timers = {}
  /\ processingTimeout = None
  /\ promise = "none"
  /\ destroyed = FALSE
  /\ ret = [op |-> "none", arg |-> 0, val |-> 0]
  /\ genCount = 0
  /\ loadCount = 0
  /\ base = <<>>
  /\ tail = <<>>
  /\ started = <<>>
  /\ appended = <<>>
  /\ failed = {}
  /\ faulted = FALSE
  /\ pageList = <<>>
  /\ pages = <<>>
  /\ locations = <<>>
  /\ firstPage = 0
  /\ lastPage = 0
  /\ totalPages = 0
  /\ InitBookState
  /\ InitOthers

NextParse ==
  \E k \in Sections : \E chars \in 0 .. MaxChars : ParseCall(k, chars)

SpecParse == InitParse /\ [][NextParse]_vars

(***************************************************************************)
(* The two indexes of a book under query: new PageList(xml) has parsed and *)
(* processed the page list, the location index is filled by load(), and    *)
(* the queries of both are made.                                           *)
(***************************************************************************)
InitPages ==
  /\ spine \in [Sections -> [linear : {TRUE}, contents : {<<>>}]]
  /\ _locations = <<>>
  /\ total = 0
  /\ break = DefaultBreak
  /\ q = [_q |-> <<>>, running |-> FALSE, paused |-> FALSE]
  /\ awaited = None
  /\ loads = {}
  /\ held = {}
  /\ timers = {}
  /\ processingTimeout = None
  /\ promise = "none"
  /\ destroyed = FALSE
  /\ ret = [op |-> "none", arg |-> 0, val |-> 0]
  /\ genCount = 0
  /\ loadCount = 0
  /\ base = <<>>
  /\ tail = <<>>
  /\ started = <<>>
  /\ appended = <<>>
  /\ failed = {}
  /\ faulted = FALSE
  /\ pageList \in PageLists
  /\ pages = processPages(pageList)
  /\ locations = processLocations(pageList)
  /\ firstPage = (IF pageList = <<>> THEN 0 ELSE pageList[1].page)
  /\ lastPage = (IF pageList = <<>> THEN 0 ELSE pageList[Len(pageList)].page)
  /\ totalPages = (IF pageList = <<>> THEN 0
                   ELSE pageList[Len(pageList)].page - pageList[1].page)
  /\ InitBookState
  /\ InitOthers

NextPages ==
  \/ \E l \in LoadInputs : Load(l)
  \/ \E cfi \in Cfis : LocationFromCfiCall(cfi)
  \/ \E loc \in LocArgs : PercentageFromLocationCall(loc)
  \/ \E loc \in LocArgs : CfiFromLocationCall(loc)
  \/ \E percentage \in Percentages : CfiFromPercentageCall(percentage)
  \/ \E cfi \in Cfis : PageFromCfiCall(cfi)
  \/ \E pg \in PageArgs : CfiFromPageCall(pg)
  \/ \E pg \in PageArgs : PercentageFromPageCall(pg)
  \/ \E pg \in PageArgs :
       totalPages # 0 /\ PageFromPercentageCall(percentageFromPage(pg))

SpecPages == InitPages /\ [][NextPages]_vars

(***************************************************************************)
(* A book that is opened: new Book(url, options), then unpack() and what   *)
(* it started, getRange() and destroy() at any moment.                     *)
(***************************************************************************)
InitBook ==
  /\ spine \in {[k \in Sections |-> [linear |-> TRUE, contents |-> d]] :
                  d \in BookDocs}
  /\ _locations = <<>>
  /\ total = 0
  /\ break = DefaultBreak
  /\ q = [_q |-> <<>>, running |-> FALSE, paused |-> FALSE]
  /\ awaited = None
  /\ loads = {}
  /\ held = {}
  /\ timers = {}
  /\ processingTimeout = None
  /\ promise = "none"
  /\ destroyed = FALSE
  /\ ret = [op |-> "none", arg |-> 0, val |-> 0]
  /\ genCount = 0
  /\ loadCount = 0
  /\ base = <<>>
  /\ tail = <<>>
  /\ started = <<>>
  /\ appended = <<>>
  /\ failed = {}
  /\ faulted = FALSE
  /\ pageList = <<>>
  /\ pages = <<>>
  /\ locations = <<>>
  /\ firstPage = 0
  /\ lastPage = 0
  /\ totalPages = 0
  /\ book \in {NewBook(a, r) : a \in BOOLEAN, r \in Replacements}
  /\ loading = [displayOptions |-> Pending, navigation |-> Pending,
                pageList |-> Pending, opening |-> Pending]
  /\ waiting = {}
  /\ completed = {}
  /\ rangePromise = NoRangePromise
  /\ InitOthers

NextBook ==
  \/ \E p \in Packagings : Unpack(p)
  \/ DisplayOptionsLoad
  \/ NavigationLoadResolve
  \/ NavigationLoadReject
  \/ LoadNavigationThen
  \/ ReplacementsResolve
  \/ ReplacementsReject
  \/ ReplaceCssResolve
  \/ ReplaceCssReject
  \/ OpeningResolve
  \/ BookDestroy
  \/ \E cfi \in RangeArgs : GetRange(cfi)
  \/ RangeLoadResolve
  \/ RangeLoadReject

SpecBook == InitBook /\ [][NextBook]_vars

(***************************************************************************)
(* The index by words: generateFromWords() is called once and left to run. *)
(***************************************************************************)
\* the word counts of the text nodes of a document
WordDocs == UNION {[1 .. n -> 0 .. MaxWords] : n \in 0 .. MaxNodes}

\* the start CFIs tried: none, or the start of a text node of a section
StartArgs ==
  {NoStart}
    \cup {Given(PointCfi(k, i, 0)) : k \in Sections, i \in 1 .. MaxNodes}

\* the counts tried: none, or a positive number
CountArgs == {NotGiven} \cup {Given(c) : c \in 1 .. MaxCount}

InitWords ==
  /\ spine \in [Sections -> [linear : {TRUE}, contents : WordDocs]]
  /\ _locations = <<>>
  /\ total = 0
  /\ break = DefaultBreak
  /\ q = [_q |-> <<>>, running |-> FALSE, paused |-> FALSE]
  /\ awaited = None
  /\ loads = {}
  /\ held = {}
  /\ timers = {}
  /\ processingTimeout = None
  /\ promise = "none"
  /\ destroyed = FALSE
  /\ ret = [op |-> "none", arg |-> 0, val |-> 0]
  /\ genCount = 0
  /\ loadCount = 0
  /\ base = <<>>
  /\ tail = <<>>
  /\ started = <<>>
  /\ appended = <<>>
  /\ failed = {}
  /\ faulted = FALSE
  /\ pageList = <<>>
  /\ pages = <<>>
  /\ locations = <<>>
  /\ firstPage = 0
  /\ lastPage = 0
  /\ totalPages = 0
  /\ InitBookState
  /\ InitOthers

NextWords ==
  \/ \E start \in StartArgs : \E wordCount \in 1 .. MaxWordCount :
       \E count \in CountArgs : GenerateFromWords(start, wordCount, count)
  \/ DequeueWords
  \/ \E k \in Sections : LoadResolveWords(k)
  \/ \E k \in Sections : TimerFire(k)
  \/ RunResolveWords

SpecWords == InitWords /\ [][NextWords]_vars

(***************************************************************************)
(* The comparator on its own: compare() is applied to three CFIs of one    *)
(* document.                                                               *)
(***************************************************************************)
\* the paths compared: up to MaxSteps steps of index 1 .. MaxIndex, each
\* with one of the three side-biases
ComparePaths ==
  UNION {[1 .. n -> [index : 1 .. MaxIndex, bias : {Before, NoBias, After}]] :
           n \in 1 .. MaxSteps}

\* the CFIs compared, all of the first document
CompareCfis ==
  {[spinePos |-> 0, steps |-> p, offset |-> o, end |-> <<>>] :
     p \in ComparePaths, o \in 0 .. MaxOffset}

CompareCall(a, b, c) ==
  /\ ret.op = "none"
  /\ ret' = [op |-> "compare", arg |-> <<a, b, c>>,
             val |-> [aa |-> compare(a, a), ab |-> compare(a, b),
                      ba |-> compare(b, a), bc |-> compare(b, c),
                      ac |-> compare(a, c)]]
  /\ UNCHANGED <<spine, index, q, awaited, loads, held, timers,
                 processingTimeout, promise, destroyed, history, pagelist,
                 bookState, others>>

\* one call is made in a behaviour
NextCompare ==
  /\ ret.op = "none"
  /\ \E a \in CompareCfis : \E b \in CompareCfis : \E c \in CompareCfis :
       CompareCall(a, b, c)

\* the book plays no part: its sections are empty
EmptyBook ==
  \A k \in Sections : spine[k] = [linear |-> TRUE, contents |-> <<>>]

InitCompare == Init /\ EmptyBook

SpecCompare == InitCompare /\ [][NextCompare]_vars

(***************************************************************************)
(* The index constructed with a pause: new Locations(spine, request,       *)
(* pause), then generate() left to run.                                    *)
(***************************************************************************)
\* the pause arguments tried: none, or 0 .. MaxPause
PauseArgs == {NotGiven} \cup {Given(p) : p \in 0 .. MaxPause}

InitPause ==
  /\ spine \in [Sections -> [linear : BOOLEAN, contents : BookDocs]]
  /\ _locations = <<>>
  /\ total = 0
  /\ break = DefaultBreak
  /\ q = [_q |-> <<>>, running |-> FALSE, paused |-> FALSE]
  /\ awaited = None
  /\ loads = {}
  /\ held = {}
  /\ timers = {}
  /\ processingTimeout = None
  /\ promise = "none"
  /\ destroyed = FALSE
  /\ ret = [op |-> "none", arg |-> 0, val |-> 0]
  /\ genCount = 0
  /\ loadCount = 0
  /\ base = <<>>
  /\ tail = <<>>
  /\ started = <<>>
  /\ appended = <<>>
  /\ failed = {}
  /\ faulted = FALSE
  /\ pageList = <<>>
  /\ pages = <<>>
  /\ locations = <<>>
  /\ firstPage = 0
  /\ lastPage = 0
  /\ totalPages = 0
  /\ InitBookState
  /\ _locationsWords = <<>>
  /\ _wordCounter = 0
  /\ wordsRun = NoWordsRun
  /\ pauseArg \in PauseArgs
  /\ pause = constructorPause(pauseArg)
  /\ processingDelay = NoDelay
  /\ urlCache = [o \in Owners |-> EmptyCache]
  /\ responses = {}
  /\ objectURLs = <<>>
  /\ navigation = NewNavigation
  /\ InitMore

SpecPause == InitPause /\ [][NextLive]_vars

(***************************************************************************)
(* Spine.unpack() gives every item its cfiBase, the chapter component of   *)
(* its index; a CFI built on it is parsed back to a spine position, which  *)
(* Spine.get() looks up.                                                   *)
(***************************************************************************)
\* epubcfi.generateChapterComponent(spineNodeIndex, pos): the step of the
\* spine element of the package, then the step of the item
generateChapterComponent(spineNodeIndex, pos) ==
  [spine |-> 2 * (spineNodeIndex + 1), item |-> 2 * pos]

\* the position an integer of a path denotes: an even integer is the
\* element child at index / 2 - 1
parseStep(n) == IF n % 2 = 0 THEN n \div 2 - 1 ELSE (n - 1) \div 2

\* new EpubCFI(string): the spine position of a CFI built on a cfiBase
spinePosOf(cfiBase) == parseStep(cfiBase.item)

\* spine.get(cfi) for a CFI built on the cfiBase of the item at index pos,
\* leading to text node i of its document
SpineGetCall(spineNodeIndex, pos, i) ==
  /\ ~book.destroyed
  /\ book.spineLoaded
  /\ ret.op = "none"
  /\ LET cfiBase == generateChapterComponent(spineNodeIndex, pos)
         cfi     == [spinePos |-> spinePosOf(cfiBase), steps |-> NodePath(i),
                     offset |-> 0, end |-> <<>>]
     IN  ret' = [op |-> "spineGet",
                 arg |-> [index |-> pos, cfiBase |-> cfiBase, cfi |-> cfi],
                 val |-> spineGet(cfi.spinePos)]
  /\ UNCHANGED <<spine, index, q, awaited, loads, held, timers,
                 processingTimeout, promise, destroyed, history, pagelist,
                 bookState, others>>

NextSpine ==
  \/ \E p \in Packagings : Unpack(p)
  \/ DisplayOptionsLoad
  \/ \E n \in 0 .. MaxSpineNode : \E pos \in 0 .. NumSections - 1 :
       \E i \in 1 .. MaxNodes : SpineGetCall(n, pos, i)

SpecSpine == InitBook /\ [][NextSpine]_vars

(***************************************************************************)
(* The temporary URLs of an archive and a store under use.                 *)
(***************************************************************************)
NextUrls ==
  \/ \E o \in Owners : \E f \in Files : \E useBase64 \in BOOLEAN :
       CreateUrl(o, f, useBase64)
  \/ \E r \in responses : Respond(r)
  \/ \E o \in Owners : \E f \in Files : RevokeUrl(o, f)
  \/ \E o \in Owners : UrlDestroy(o)

SpecUrls == InitCompare /\ [][NextUrls]_vars

(***************************************************************************)
(* A navigation built from a TOC of two levels and asked for one target.   *)
(***************************************************************************)
\* the lists of up to MaxItems items of S
ItemLists(S) == UNION {[1 .. n -> S] : n \in 0 .. MaxItems}

Tocs ==
  ItemLists([id : Names, href : Names,
             subitems : ItemLists([id : Names, href : Names,
                                   subitems : {<<>>}])])

\* one navigation is built and asked once
NextNav ==
  \/ /\ navigation = NewNavigation
     /\ \E toc \in Tocs : NavigationNew(toc)
  \/ /\ navigation # NewNavigation
     /\ \E target \in Targets : NavGet(target)

SpecNav == InitCompare /\ [][NextNav]_vars

(***************************************************************************)
(* parse() run step by step on one document.  The loop is synchronous      *)
(* code: once entered it is run on, so its steps are taken fairly.         *)
(***************************************************************************)
ParseAdvance == ParserEnter \/ ParserLoop \/ ParserReturn \/ ParseClose

NextParseRun ==
  \/ \E k \in Sections : \E chars \in 0 .. MaxChars : ParseBegin(k, chars)
  \/ ParserEnter
  \/ ParserLoop
  \/ ParserReturn
  \/ ParseClose

LiveParse == InitParse /\ [][NextParseRun]_vars /\ WF_vars(ParseAdvance)

(***************************************************************************)
(* The index is generated while its current location is set from outside.  *)
(***************************************************************************)
\* the CFI strings and the numbers handed to setCurrent
CurrentCfis == {PointCfi(k, 1, 0) : k \in Sections} \cup {PointCfi(1, 1, 1)}
CurrentNumbers == 0 .. 1

InitCurrent ==
  /\ Init
  /\ \A k \in Sections : spine[k].linear

NextCurrent ==
  \/ \E chars \in 0 .. MaxBreak : Generate(chars)
  \/ Dequeue
  \/ \E k \in Sections : LoadResolve(k)
  \/ \E k \in Sections : TimerFire(k)
  \/ RunResolve
  \/ \E curr \in CurrentCfis : SetCurrentCfi(curr)
  \/ \E curr \in CurrentNumbers : SetCurrentNumber(curr)

SpecCurrent == InitCurrent /\ [][NextCurrent]_vars

(***************************************************************************)
(* A Spine is unpacked from a package and its sections are asked for their *)
(* neighbours.                                                             *)
(***************************************************************************)
NextSections ==
  \/ /\ spineObj = NewSpine
     /\ ret.op = "none"
     /\ \E items \in SpineLists : SpineUnpack(items)
  \/ \E i \in 1 .. MaxSpineItems : SectionNeighbours(i)

SpecSections == InitCompare /\ [][NextSections]_vars

(***************************************************************************)
(* A Spine is unpacked and then edited.                                    *)
(***************************************************************************)
NextSpineEdit ==
  \/ /\ spineObj = NewSpine
     /\ \E items \in SpineLists : Len(items) < MaxSpineItems
                                    /\ SpineUnpack(items)
  \/ \E section \in SpineSections : SpineAppend(section)
  \/ \E section \in SpineSections : SpinePrepend(section)
  \/ \E i \in 1 .. MaxSpineItems : SpineRemove(i)

SpecSpineEdit == InitCompare /\ [][NextSpineEdit]_vars

(***************************************************************************)
(* The resources of a manifest are replaced and then asked for.            *)
(***************************************************************************)
NextResources ==
  \/ /\ resources = NoResources
     /\ \E manifest \in Manifests : ResourcesNew(manifest)
  \/ ResourcesReplacements
  \/ \E i \in 1 .. MaxAssets : CreateUrlResolve(i)
  \/ \E i \in 1 .. MaxAssets : CreateUrlReject(i)
  \/ ReplacementsThen
  \/ \E href \in 1 .. MaxAssets : ReplaceCssThen(href)
  \/ \E path \in 1 .. MaxAssets : ResourcesGet(path)

SpecResources == InitCompare /\ [][NextResources]_vars

(***************************************************************************)
(* display() is called on the Rendition of a book of at most one section;  *)
(* the queue runs every task it can and every manager.display() settles.   *)
(***************************************************************************)
DisplayTargets == 0 .. 1

NextRendition ==
  \/ /\ spineObj = NewSpine
     /\ rendition = NewRendition
     /\ \E items \in {l \in SpineLists : Len(l) <= 1} : SpineUnpack(items)
  \/ \E target \in DisplayTargets : Display(target)
  \/ RunDisplay
  \/ \E i \in 1 .. MaxDisplays : ManagerResolve(i)
  \/ \E i \in 1 .. MaxDisplays : ManagerReject(i)
  \/ RenditionDestroy

ManagerSettles(i) == ManagerResolve(i) \/ ManagerReject(i)

LiveRendition ==
  /\ InitCompare
  /\ [][NextRendition]_vars
  /\ WF_vars(RunDisplay)
  /\ \A i \in 1 .. MaxDisplays : WF_vars(ManagerSettles(i))

(***************************************************************************)
(* Properties.                                                             *)
(***************************************************************************)
Range(f) == {f[i] : i \in DOMAIN f}

NonDecreasing(s) == \A i \in 1 .. Len(s) - 1 : compare(s[i], s[i + 1]) <= 0

StrictlyBetween(c, a, b) == compare(a, c) = -1 /\ compare(c, b) = -1

\* the index is settled: total was set for the list _locations holds
Settled == ~destroyed /\ total = Len(_locations) - 1

\* C1: in a settled index whose _locations are strictly increasing,
\* locationFromCfi of the i-th entry is i (counted from 0), and
\* locationFromCfi of a CFI strictly between the i-th entry and the next
\* is i as well.
C1_BinarySearch ==
  (Settled /\ Increasing(_locations)) =>
    /\ \A i \in 1 .. Len(_locations) :
         locationFromCfi(_locations[i]) = i - 1
    /\ \A i \in 1 .. Len(_locations) - 1 : \A c \in Cfis :
         StrictlyBetween(c, _locations[i], _locations[i + 1])
           => locationFromCfi(c) = i - 1

\* C2: once the generate() and load() calls made so far are over,
\* _locations is monotonically increasing under the CFI comparator.
C2_Monotonic ==
  (~destroyed /\ promise # "pending") => NonDecreasing(_locations)

\* C3: during generate() the sections are loaded in spine order, none
\* skipped, and at most one section is loaded and not yet unloaded: the
\* load of the next section is requested only after the previous section
\* has been unloaded.
C3_OneAtATime ==
  /\ Cardinality(held) <= 1
  /\ Cardinality(loads) <= 1
  /\ started = SubSeq(linearFrom(spine, 1), 1, Len(started))
  /\ Len(started) <= Len(linearFrom(spine, 1))

\* the second linear section is being loaded, the first one was processed
\* and unloaded
C3_Witness ==
  /\ Len(started) = 2
  /\ loads = {started[2]}
  /\ held = {started[2]}
  /\ appended = <<started[1]>>

LinearSections == {k \in Sections : spine[k].linear}

\* the linear sections whose load was not rejected, in spine order
RECURSIVE without(_, _)
without(ks, bad) ==
  IF ks = <<>> THEN <<>>
  ELSE IF Head(ks) \in bad THEN without(Tail(ks), bad)
  ELSE <<Head(ks)>> \o without(Tail(ks), bad)

IsSuffix(t, s) ==
  Len(t) <= Len(s) /\ t = SubSeq(s, Len(s) - Len(t) + 1, Len(s))

\* _locations is what the last generate() call found, or a later load()
\* set, followed by the whole chunk lists of the sections appended since
LocationsShape ==
  ~destroyed => _locations = base \o chunksOf(spine, tail, 1, break)

\* the step on which the promise returned by generate() resolves
Resolves == promise = "pending" /\ promise' = "resolved"

C5_GenerateResolves == (promise = "pending") ~> (promise = "resolved")

\* a run over two linear sections has resolved
C5_Witness == promise = "resolved" /\ Len(appended) = 2

\* C6: generate() requests no load of a non-linear section, and no entry
\* it adds to _locations comes from a non-linear section.
C6_LinearOnly ==
  /\ \A k \in Range(q._q) \cup Range(started) \cup loads \cup held :
       spine[k].linear
  /\ \A k \in Range(appended) \cup Range(tail) : spine[k].linear
  /\ LocationsShape

\* a run has resolved over a book with a non-linear section that has text
C6_Witness ==
  /\ promise = "resolved"
  /\ appended # <<>>
  /\ _locations # <<>>
  /\ \E k \in Sections :
       ~spine[k].linear /\ parse(spine[k].contents, k, break) # <<>>

\* C7: once destroy() was called, no section load is started and no
\* pending continuation touches the _locations of the destroyed index.
C7_SafeDestroy ==
  [][destroyed => (started' = started /\ loads' \subseteq loads
                   /\ ~faulted')]_vars

Fresh == genCount = 0 /\ loadCount = 0

\* C9: on a newly constructed index locationFromCfi returns -1 for every
\* CFI and percentageFromLocation returns 0 for every argument.
C9_EmptyIndexGuard ==
  Fresh =>
    /\ total = 0
    /\ ret.op = "locationFromCfi" => ret.val = -1
    /\ ret.op = "percentageFromLocation" => ret.val = Zero
    /\ \A c \in Cfis : locationFromCfi(c) = -1
    /\ \A x \in LocArgs : percentageFromLocation(x) = Zero

\* percentageFromLocation(1) was called on the new index and returned 0
C9_Witness ==
  /\ Fresh
  /\ ret.op = "percentageFromLocation"
  /\ ret.arg = 1
  /\ ret.val = Zero

\* C10: locationFromCfi returns -1 exactly when _locations is empty;
\* otherwise its result lies in 0 .. total and is total whenever the
\* insertion point exceeds total.
C10_Clamped ==
  ~destroyed =>
    \A c \in Cfis :
      LET r == locationFromCfi(c)
      IN  /\ (r = -1) <=> (Len(_locations) = 0)
          /\ Len(_locations) > 0 =>
               /\ 0 <= r /\ r <= total
               /\ locationOf(c, _locations) > total => r = total

\* a fraction num / den lies in the closed interval [0, 1]
InUnit(v) ==
  IF v.den > 0 THEN 0 <= v.num /\ v.num <= v.den
  ELSE v.den < 0 /\ v.den <= v.num /\ v.num <= 0

\* C11: percentageFromLocation(loc) lies in [0, 1] for every location
\* loc >= 0, in every state of the index.
C11_UnitInterval ==
  (ret.op = "percentageFromLocation" /\ ret.arg >= 0) => InUnit(ret.val)

\* C12: for 0 <= p < 1 cfiFromPercentage(p) is the entry at index
\* ceil(total * p) whenever the index holds one there, which it does for
\* every such p once it is settled and not empty; for p >= 1 it is the
\* entry at index total collapsed to a point.
C12_CfiFromPercentage ==
  ~destroyed =>
    \A p \in Percentages :
      LET loc == Ceil(total * p.num, p.den)
          cfi == cfiFromPercentage(p)
      IN  IF p.num < p.den
          THEN /\ (loc >= 0 /\ loc < Len(_locations))
                    => cfi = _locations[loc + 1]
               /\ (Settled /\ _locations # <<>>)
                    => loc >= 0 /\ loc <= total /\ cfi # MinusOne
          ELSE (total >= 0 /\ total < Len(_locations))
                 => /\ cfi = collapse(_locations[total + 1], FALSE)
                    /\ cfi.end = <<>>
                    /\ cfi.spinePos = _locations[total + 1].spinePos

\* cfiFromPercentage(0.5) returned the third of four entries, and
\* cfiFromPercentage(1) would return the end of the last range
C12_Witness ==
  /\ ret.op = "cfiFromPercentage"
  /\ ret.arg = [num |-> 50, den |-> PercentDen]
  /\ Settled
  /\ total = 3
  /\ ret.val = _locations[3]
  /\ _locations[4].end # <<>>
  /\ cfiFromPercentage([num |-> 100, den |-> PercentDen]) # _locations[4]

\* the percentages of the round trip: 0, 0.25, 0.5, 0.99 and 1
RoundTripPercentages ==
  {[num |-> n, den |-> PercentDen] : n \in {0, 25, 50, 99, 100}}

\* C13: for strictly increasing entries and total > 0, the percentage of
\* the location of cfiFromPercentage(p) differs from p by at most 1/total.
C13_PercentageInverse ==
  (~destroyed /\ Increasing(_locations) /\ total > 0) =>
    \A p \in RoundTripPercentages :
      LET v == percentageFromLocation(locationFromCfi(cfiFromPercentage(p)))
          d == v.num * p.den * total - p.num * v.den * total
      IN  /\ v.den > 0
          /\ d <= p.den * v.den
          /\ -d <= p.den * v.den

\* cfiFromPercentage(0.99) was asked of an index of four entries
C13_Witness ==
  /\ ret.op = "cfiFromPercentage"
  /\ ret.arg = [num |-> 99, den |-> PercentDen]
  /\ Settled
  /\ Increasing(_locations)
  /\ total = 3
  /\ ret.val = _locations[4]
  /\ locationFromCfi(ret.val) = 3

\* generate() has resolved or load() has returned, and no run is under way
Completed ==
  /\ ~destroyed
  /\ promise \in {"none", "resolved"}
  /\ (loadCount > 0 \/ promise = "resolved")

Finishes == Resolves \/ loadCount' = loadCount + 1

\* C17, as claimed: after generate() resolves or load() returns, total is
\* the number of entries of _locations.
C17_Original == [][Finishes => total' = Len(_locations')]_vars

\* C17, amended: after generate() resolves or load() returns, total is the
\* number of entries of _locations minus one, the index of the last entry
\* (-1 for an empty list).
C17_TotalIsLastIndex == [][Finishes => total' = Len(_locations') - 1]_vars

\* generate() has resolved with four entries and total 3
C17_Witness ==
  /\ promise = "resolved"
  /\ loadCount = 0
  /\ Len(_locations) = 4
  /\ total = 3

\* the entries of the page list that hold a CFI, in the order of the list
cfiEntries == SelectSeq(pageList, hasCfi)

\* the entries of the page list that hold a CFI are in CFI order
EntriesInCfiOrder ==
  \A i \in 1 .. Len(cfiEntries) - 1 :
    compare(cfiEntries[i].cfi, cfiEntries[i + 1].cfi) = -1

\* every entry of the page list holds a CFI
AllEntriesHaveCfi == \A i \in 1 .. Len(pageList) : hasCfi(pageList[i])

\* what C18 says pageFromCfi(c) returns
expectedPage(c) ==
  LET equal  == {i \in 1 .. Len(cfiEntries) :
                   compare(cfiEntries[i].cfi, c) = 0}
      before == {i \in 1 .. Len(cfiEntries) :
                   compare(cfiEntries[i].cfi, c) = -1}
  IN  IF cfiEntries = <<>> THEN -1
      ELSE IF equal # {} THEN cfiEntries[CHOOSE i \in equal : TRUE].page
      ELSE IF before # {}
           THEN cfiEntries[CHOOSE i \in before :
                             \A j \in before : j <= i].page
      ELSE pageList[1].page

\* C18: pageFromCfi(c) is -1 when the index has no locations; with the
\* entries in CFI order it is the page of the entry whose CFI equals c when
\* there is one, otherwise the page of the entry just before the insertion
\* point of c, or the first page when c sorts before all entries.
C18_PageFromCfi ==
  (ret.op = "pageFromCfi" /\ EntriesInCfiOrder) =>
    ret.val = expectedPage(ret.arg)

\* C18 for page lists all of whose entries hold a CFI
C18_Aligned ==
  (ret.op = "pageFromCfi" /\ EntriesInCfiOrder /\ AllEntriesHaveCfi) =>
    ret.val = expectedPage(ret.arg)

\* C19: cfiFromPage(p) is the CFI of an entry whose page number is p, and
\* -1 when no entry has page number p; for an entry that holds no CFI it
\* is -1 or undefined.
C19_CfiFromPage ==
  ret.op = "cfiFromPage" =>
    LET same == {i \in 1 .. Len(pageList) : pageList[i].page = ret.arg}
    IN  IF same = {} THEN ret.val = MinusOne
        ELSE \E i \in same :
               IF hasCfi(pageList[i]) THEN ret.val = pageList[i].cfi
               ELSE ret.val \in {MinusOne, ResolvedUndefined}

\* C19 for page lists all of whose entries hold a CFI
C19_Aligned ==
  (ret.op = "cfiFromPage" /\ AllEntriesHaveCfi) =>
    LET same == {i \in 1 .. Len(pageList) : pageList[i].page = ret.arg}
    IN  IF same = {} THEN ret.val = MinusOne
        ELSE \E i \in same : ret.val = pageList[i].cfi

RECURSIVE textBefore(_, _)
textBefore(doc, n) ==
  IF n <= 1 THEN 0
  ELSE textBefore(doc, n - 1) + (IF doc[n - 1] > 0 THEN doc[n - 1] ELSE 0)

\* the text node a CFI starts in
nodeOf(cfi) == (cfi.steps[2].index + 1) \div 2

\* where in the text of its document an emitted range starts and ends
startOf(doc, cfi) == textBefore(doc, nodeOf(cfi)) + cfi.offset
endOf(doc, cfi) == textBefore(doc, cfi.end[1]) + cfi.end[2]

\* the chunk size a parse() call worked with
breakOf(chars) == IF chars # 0 THEN chars ELSE break

\* C15: within one document parse() emits a boundary every chunkSize
\* characters: the boundaries of consecutive emitted ranges (their starts,
\* or their ends up to the range that closes the document) are exactly
\* chunkSize characters of text apart.
C15_EveryChunkSize ==
  ret.op = "parse" =>
    LET doc == spine[ret.arg.section].contents
        brk == breakOf(ret.arg.chars)
        L   == ret.val
    IN  \/ \A i \in 1 .. Len(L) - 1 :
             startOf(doc, L[i + 1]) - startOf(doc, L[i]) = brk
        \/ \A i \in 1 .. Len(L) - 2 :
             endOf(doc, L[i + 1]) - endOf(doc, L[i]) = brk

\* the state of parse() after the first n text nodes of a document
stateAfter(doc, k, n, brk) ==
  sprint([locations |-> <<>>, range |-> createRange, counter |-> 0,
          prev |-> None], k, SubSeq(doc, 1, n), 1, brk)

\* C16: a text node that holds only whitespace leaves the running counter,
\* the open range and the emitted locations of parse() as they were, and
\* the range that closes the document never ends in such a node.
C16_WhitespaceSkipped ==
  /\ \A k \in Sections : \A brk \in 1 .. MaxChars :
       LET doc == spine[k].contents
       IN  \A n \in 1 .. Len(doc) :
             doc[n] <= 0 =>
               LET before == stateAfter(doc, k, n - 1, brk)
                   after  == stateAfter(doc, k, n, brk)
               IN  /\ after.counter = before.counter
                   /\ after.range = before.range
                   /\ after.locations = before.locations
  /\ ret.op = "parse" =>
       LET doc == spine[ret.arg.section].contents
       IN  \A i \in 1 .. Len(ret.val) :
             doc[nodeOf(ret.val[i])] > 0 /\ doc[ret.val[i].end[1]] > 0

\* parse() was called on a document whose text node is followed by a
\* whitespace node of length 1, with the counter carried into it
C16_Witness ==
  /\ ret.op = "parse"
  /\ ret.arg.chars = MaxChars
  /\ spine[ret.arg.section].contents = <<MaxChars - 1, -1>>
  /\ Len(ret.val) = 1
  /\ ret.val[1].end = <<1, MaxChars - 1>>

\* C21: Book.getRange(cfi) returns a promise that is rejected, and never
\* resolves, whenever the CFI cannot be resolved: the spine has no item at
\* cfi.spinePos, the load of the section fails, or a step of the CFI has no
\* node in the loaded document.
C21_GetRangeRejects ==
  rangePromise.state # "none" =>
    LET cfi == rangePromise.cfi
        k   == cfi.spinePos + 1
    IN  /\ k \notin Sections => rangePromise.state = "rejected"
        /\ rangePromise.value = "load error"
             => rangePromise.state = "rejected"
        /\ (k \in Sections /\ findNode(cfi, spine[k].contents) = None)
             => rangePromise.state # "resolved"

\* C22: book.loaded.pageList resolves with the PageList built for the
\* book: when the package has a navigation document, the promise is not
\* resolved before loadNavigation() has constructed this.pageList, so its
\* value is never undefined.
C22_PageListResolved ==
  (loading.pageList.state = "resolved" /\ book.packaging.nav = "navPath")
    => loading.pageList.value = "PageList"

\* C22 for the packages whose navigation needs no request: a JSON manifest
\* with a page list, or no navigation at all
C22_Synchronous ==
  (loading.pageList.state = "resolved"
     /\ book.packaging.nav \in {"tocPageList", "none"})
    => loading.pageList.value = "PageList"

\* the step on which book.opened resolves
Opens ==
  loading.opening.state = "pending" /\ loading'.opening.state = "resolved"

\* C27: book.opened resolves only after unpack() has set isOpen to true
\* and loaded.displayOptions has resolved, and, when the book is archived
\* or replacements are enabled, only after resources.replacements() and
\* replaceCss() have completed.
C27_OpenedAfterUnpack ==
  [][Opens =>
       /\ "unpack" \in completed
       /\ book.isOpen \/ book.destroyed
       /\ loading.displayOptions.state = "resolved"
       /\ "replacementsCalled" \in completed
            => {"replacements", "replaceCss"} \subseteq completed]_vars

\* an archived book whose display options had to be requested has opened
C27_Witness ==
  /\ loading.opening.state = "resolved"
  /\ book.isOpen
  /\ book.archived
  /\ book.packaging.layout = ""
  /\ {"replacements", "replaceCss"} \subseteq completed

\* C23: when count is given, generateFromWords(startCfi, wordCount, count)
\* resolves with at most count locations: after every processed section
\* _locationsWords holds at most count entries.
C23_AtMostCount ==
  wordsRun.count.given => Len(_locationsWords) <= wordsRun.count.value

\* C23 for a section that alone yields count locations or more
C23_WhenSectionFills ==
  [][(wordsRun.count.given /\ _locationsWords' # _locationsWords
        /\ Len(_locationsWords') - Len(_locationsWords)
             >= wordsRun.count.value)
       => Len(_locationsWords') <= wordsRun.count.value]_vars

\* the first position at which two paths differ, or 0
firstDifference(a, b) ==
  LET m     == IF Len(a.steps) < Len(b.steps) THEN Len(a.steps)
               ELSE Len(b.steps)
      diffs == {i \in 1 .. m : a.steps[i] # b.steps[i]}
  IN  IF diffs = {} THEN 0 ELSE CHOOSE i \in diffs : \A j \in diffs : i <= j

sign(x) == IF x > 0 THEN 1 ELSE IF x < 0 THEN -1 ELSE 0

\* the order of two CFIs of one document, as C24 words it
documentOrder(a, b) ==
  LET i == firstDifference(a, b)
  IN  IF i # 0
      THEN IF a.steps[i].index # b.steps[i].index
           THEN sign(a.steps[i].index - b.steps[i].index)
           ELSE sign(a.steps[i].bias - b.steps[i].bias)
      ELSE IF Len(a.steps) # Len(b.steps)
      THEN sign(Len(a.steps) - Len(b.steps))
      ELSE sign(a.offset - b.offset)

\* C24: on the CFIs of one document the comparator is a total order
\* consistent with document order: compare(a, a) = 0, compare(a, b) < 0
\* and compare(b, c) < 0 imply compare(a, c) < 0, and the paths are
\* compared step by step by index, then by side-bias (before < no bias <
\* after), a strict prefix sorting before the longer path.
C24_TotalOrder ==
  ret.op = "compare" =>
    LET a == ret.arg[1]
        b == ret.arg[2]
        c == ret.arg[3]
        v == ret.val
    IN  /\ v.aa = 0
        /\ (v.ab < 0 /\ v.bc < 0) => v.ac < 0
        /\ v.ab = -v.ba
        /\ v.ab = 0 => (a.steps = b.steps /\ a.offset = b.offset)
        /\ v.ab = documentOrder(a, b)
        /\ v.bc = documentOrder(b, c)
        /\ v.ac = documentOrder(a, c)

\* a < b by the side-bias of the last step alone, b < c because b is a
\* strict prefix of c, and a < c was found
C24_Witness ==
  /\ ret.op = "compare"
  /\ Len(ret.arg[1].steps) = 1
  /\ ret.arg[1].steps[1] = [index |-> 1, bias |-> Before]
  /\ ret.arg[2].steps = <<[index |-> 1, bias |-> After]>>
  /\ Len(ret.arg[3].steps) = 2
  /\ ret.arg[3].steps[1] = ret.arg[2].steps[1]
  /\ ret.val.ab = -1
  /\ ret.val.bc = -1
  /\ ret.val.ac = -1

\* C25: the pause between documents can be configured down to zero: an
\* index constructed with pause = 0 has pause 0, and the timers it sets
\* between documents have delay 0.
C25_PauseZero ==
  (pauseArg.given /\ pauseArg.value = 0) =>
    /\ pause = 0
    /\ processingDelay \in {NoDelay, 0}

\* C25 for the pauses above zero: the index has the pause it was given
C25_PauseAboveZero ==
  (pauseArg.given /\ pauseArg.value > 0) =>
    /\ pause = pauseArg.value
    /\ processingDelay \in {NoDelay, pauseArg.value}

\* C26: for every spine index k, the cfiBase generated for section k in
\* Spine.unpack parses back to spinePos = k, so Spine.get(cfi) returns
\* section k for every CFI built on the cfiBase of section k (section k
\* is Sections' k + 1).
C26_CfiBaseRoundTrip ==
  ret.op = "spineGet" =>
    /\ ret.arg.cfi.spinePos = ret.arg.index
    /\ ret.val = ret.arg.index + 1

\* the step on which destroy() of object o returns
UrlsDestroyed(o) == urlCache[o] # EmptyCache /\ urlCache'[o] = EmptyCache

\* C28: Archive.destroy() and Store.destroy() revoke every temporary blob
\* URL that createUrl() created and stored in urlCache, and leave urlCache
\* empty.
C28_DestroyRevokes ==
  [][\A o \in Owners :
       UrlsDestroyed(o) =>
         \A f \in Files :
           urlCache[o][f].kind = "blob"
             => objectURLs'[urlCache[o][f].id].revoked]_vars

\* the item of the TOC toc at the path p of 0-based positions
RECURSIVE itemAt(_, _)
itemAt(toc, p) ==
  IF Len(p) = 1 THEN toc[p[1] + 1]
  ELSE itemAt(toc[p[1] + 1].subitems, Tail(p))

\* the paths of the items of the TOC toc, at any depth
itemPaths(toc) ==
  {<<i>> : i \in 0 .. Len(toc) - 1}
    \cup UNION {{<<i, j>> : j \in 0 .. Len(toc[i + 1].subitems) - 1} :
                 i \in 0 .. Len(toc) - 1}

\* C29: Navigation.get(target) finds a TOC item by id or by href: for every
\* parsed item at any nesting depth, get('#' + item.id) and get(item.href)
\* both return that item.
C29_GetFindsItem ==
  ret.op = "get" =>
    \A p \in itemPaths(navigation.toc) :
      LET item == itemAt(navigation.toc, p)
      IN  (\/ ret.arg = [hash |-> TRUE, name |-> item.id]
           \/ ret.arg = [hash |-> FALSE, name |-> item.href])
            => ret.val = [found |-> TRUE, path |-> p]

\* no other item of the TOC has the name n as its id or its href
nameOnlyAt(n, p) ==
  \A r \in itemPaths(navigation.toc) \ {p} :
    LET other == itemAt(navigation.toc, r)
    IN  other.id # n /\ other.href # n

\* C29, by href: get(item.href) returns the item when no other item bears
\* that string
C29_GetByHref ==
  ret.op = "get" =>
    \A p \in itemPaths(navigation.toc) :
      LET item == itemAt(navigation.toc, p)
      IN  (ret.arg = [hash |-> FALSE, name |-> item.href]
             /\ nameOnlyAt(item.href, p))
            => ret.val = [found |-> TRUE, path |-> p]

\* C29, by id: get('#' + item.id) returns no item at all
C29_GetByIdFindsNothing ==
  (ret.op = "get" /\ ret.arg.hash) => ~ret.val.found

\* the characters of text of a document
textOf(doc) == textBefore(doc, Len(doc) + 1)

\* C30: for the non-whitespace text nodes of one document, the ranges
\* emitted by parse() are contiguous and non-overlapping: the first range
\* starts at offset 0 of the first such node, each later range starts
\* exactly where the previous one ended, and the last range ends at the end
\* of the last such node, so every character lies in exactly one chunk.
C30_Contiguous ==
  (ret.op = "parse" /\ textOf(spine[ret.arg.section].contents) > 0) =>
    LET doc == spine[ret.arg.section].contents
        L   == ret.val
    IN  /\ Len(L) >= 1
        /\ startOf(doc, L[1]) = 0
        /\ \A i \in 1 .. Len(L) - 1 : startOf(doc, L[i + 1]) = endOf(doc, L[i])
        /\ endOf(doc, L[Len(L)]) = textOf(doc)

\* C30, the part that holds: the ranges are emitted in order and do not
\* overlap, and the last one ends at the end of the text
C30_InOrder ==
  (ret.op = "parse" /\ textOf(spine[ret.arg.section].contents) > 0) =>
    LET doc == spine[ret.arg.section].contents
        L   == ret.val
    IN  /\ Len(L) >= 1
        /\ \A i \in 1 .. Len(L) : startOf(doc, L[i]) <= endOf(doc, L[i])
        /\ \A i \in 1 .. Len(L) - 1 :
             endOf(doc, L[i]) <= startOf(doc, L[i + 1])
        /\ endOf(doc, L[Len(L)]) = textOf(doc)

\* what is left of the loop of parser over one node: twice the characters
\* ahead of pos, and one more when the counter is carried
loopMeasure(run) ==
  2 * (run.len - run.pos) + (IF run.s.counter # 0 THEN 1 ELSE 0)

\* C31: parse() terminates for every document and every chunkSize >= 1:
\* every iteration of the per-node loop brings the loop nearer its end
\* (also when the carried counter equals chunkSize and the remaining
\* distance is 0), the running counter stays within 0 .. chunkSize, and a
\* parse() that was begun returns; what it returns is parse() of the
\* document.
C31_Terminates ==
  /\ [](parseRun.s.counter \in 0 .. parseRun.brk)
  /\ [][(parseRun.at = "loop" /\ parseRun'.at = "loop"
           /\ parseRun' # parseRun)
          => loopMeasure(parseRun') < loopMeasure(parseRun)]_vars
  /\ [](parseRun.at = "done" =>
          parseRun.s.locations
            = parse(parseRun.doc, parseRun.section, parseRun.brk))
  /\ (parseRun.at # "idle") ~> (parseRun.at = "done")

\* the loop was entered with the counter carried at chunkSize, the distance
\* left being 0, and parse() returned
C31_Witness ==
  /\ parseRun.at = "done"
  /\ parseRun.doc = <<2, 1>>
  /\ parseRun.brk = 1
  /\ Len(parseRun.s.locations) = 2
  /\ parseRun.s.locations[1].end = <<2, 0>>

\* setCurrent was called with a CFI string while the index was empty
SetWhileEmpty == _currentCfi' # _currentCfi /\ Len(_locations) = 0

\* a generate() resolves with an index that is not empty
GenerateResolves ==
  /\ promise = "pending"
  /\ promise' = "resolved"
  /\ ~destroyed
  /\ Len(_locations') > 0

\* C32: if setCurrent(cfiString) is called while the index is empty, no
\* 'changed' event is emitted at that time; when a later generate()
\* resolves with a non-empty index, _current is set to
\* locationFromCfi(cfiString) and exactly one 'changed' event carrying the
\* corresponding percentage is emitted.
C32_CurrentAfterGenerate ==
  [][/\ SetWhileEmpty => emitted' = emitted
     /\ (GenerateResolves /\ _currentCfi.given) =>
          /\ _current'
               = locationFromCfiAt(_currentCfi.value, _locations', total')
          /\ emitted'
               = Append(emitted,
                        [percentage |->
                           percentageFromLocationAt(_current', total'),
                         from |-> "generate"])
     /\ (GenerateResolves /\ ~_currentCfi.given) => emitted' = emitted]_vars

\* setCurrent was called on the empty index with a CFI of the second
\* section, and the generate() that followed found it at location 1 of 2
C32_Witness ==
  /\ promise = "resolved"
  /\ genCount = 1
  /\ _currentCfi = Given(PointCfi(2, 1, 0))
  /\ Len(_locations) >= 2
  /\ _current >= 1
  /\ Len(emitted) = 1
  /\ emitted[1].percentage.num = _current
  /\ emitted[1].from = "generate"

\* entry i of the page list holds a CFI, and no other entry its page number
UniquePageWithCfi(i) ==
  /\ hasCfi(pageList[i])
  /\ \A j \in 1 .. Len(pageList) : pageList[j].page = pageList[i].page => j = i

\* C33: for every entry of the parsed page list that has a CFI and a unique
\* page number, cfiFromPage(page) returns that entry's CFI and (with entries
\* in CFI order) pageFromCfi(cfi) returns that entry's page - also when
\* other entries of the list carry only an href and no CFI.
C33_EntryRoundTrip ==
  \A i \in 1 .. Len(pageList) :
    UniquePageWithCfi(i) =>
      /\ (ret.op = "cfiFromPage" /\ ret.arg = pageList[i].page)
           => ret.val = pageList[i].cfi
      /\ (ret.op = "pageFromCfi" /\ ret.arg = pageList[i].cfi
            /\ EntriesInCfiOrder)
           => ret.val = pageList[i].page

\* C33 for page lists all of whose entries hold a CFI
C33_Aligned ==
  AllEntriesHaveCfi =>
    \A i \in 1 .. Len(pageList) :
      UniquePageWithCfi(i) =>
        /\ (ret.op = "cfiFromPage" /\ ret.arg = pageList[i].page)
             => ret.val = pageList[i].cfi
        /\ (ret.op = "pageFromCfi" /\ ret.arg = pageList[i].cfi
              /\ EntriesInCfiOrder)
             => ret.val = pageList[i].page

\* C34: for a PageList with totalPages > 0 and every page pg with
\* firstPage <= pg <= lastPage, pageFromPercentage(percentageFromPage(pg))
\* == pg.
C34_PageRoundTrip ==
  (ret.op = "pageFromPercentage" /\ totalPages > 0) =>
    \A pg \in firstPage .. lastPage :
      ret.arg = percentageFromPage(pg) => ret.val = pg

\* C34, what the code returns: the page counted from firstPage
C34_CountedFromFirst ==
  (ret.op = "pageFromPercentage" /\ totalPages > 0) =>
    \A pg \in firstPage .. lastPage :
      ret.arg = percentageFromPage(pg) => ret.val = pg - firstPage

\* the linear sections of the Spine after position i, and those before it
linearAfter(i) ==
  {j \in i + 1 .. Len(spineObj.spineItems) : spineObj.spineItems[j].linear}
linearBefore(i) ==
  {j \in 1 .. i - 1 : spineObj.spineItems[j].linear}

\* C35: for a linear section s, s.next() returns the linear section with
\* the smallest index greater than s.index (undefined if there is none) and
\* s.prev() returns the linear section with the largest index smaller than
\* s.index (undefined if there is none), skipping non-linear sections; for
\* a non-linear section both return undefined.
C35_Neighbours ==
  ret.op = "neighbours" =>
    LET i   == ret.arg
        s   == spineObj.spineItems[i]
        nxt == linearAfter(i)
        prv == linearBefore(i)
    IN  IF s.linear
        THEN /\ ret.val.next =
                  (IF nxt = {} THEN NoSection
                   ELSE spineObj.spineItems[CHOOSE j \in nxt :
                                              \A m \in nxt : j <= m])
             /\ ret.val.prev =
                  (IF prv = {} THEN NoSection
                   ELSE spineObj.spineItems[CHOOSE j \in prv :
                                              \A m \in prv : j >= m])
        ELSE ret.val.next = NoSection /\ ret.val.prev = NoSection

\* the first of three sections was asked: the second is not linear and is
\* skipped, the third is linear and is its next()
C35_Witness ==
  /\ ret.op = "neighbours"
  /\ ret.arg = 1
  /\ Len(spineObj.spineItems) = 3
  /\ spineObj.spineItems[1].linear
  /\ ~spineObj.spineItems[2].linear
  /\ spineObj.spineItems[3].linear
  /\ ret.val.next = spineObj.spineItems[3]
  /\ ret.val.prev = NoSection

\* C36: after any sequence of append(), prepend() and remove() calls on a
\* Spine, every section s in spineItems has s.index equal to its position
\* in spineItems, and every key h of spineByHref maps to a position that
\* holds a section whose href is h (so get(s.href) returns s).
C36_SpineConsistent ==
  /\ \A i \in 1 .. Len(spineObj.spineItems) :
       /\ spineObj.spineItems[i].index = i - 1
       /\ getByHref(spineObj, hrefOf(spineObj.spineItems[i]),
                    spineObj.spineItems[i].plain) = spineObj.spineItems[i]
  /\ \A h \in HrefKeys :
       spineObj.spineByHref[h] # NoIndex =>
         /\ itemAtIndex(spineObj, spineObj.spineByHref[h]) # NoSection
         /\ hrefOf(itemAtIndex(spineObj, spineObj.spineByHref[h]))
              = decodeURI(h)

\* C36 while the Spine is only appended to
C36_AppendOnly ==
  [][(\E section \in SpineSections : spineObj' = append(spineObj, section))
       => (C36_SpineConsistent => C36_SpineConsistent')]_vars

\* C37: after Resources.replacements() resolves, replacementUrls is
\* index-aligned with urls: for every i, replacementUrls[i] is the
\* replacement created for urls[i], so substitute() and get() map each
\* asset to its own replacement - also when creating the URL of some other
\* asset failed.
C37_ReplacementsAligned ==
  resources.state = "resolved" =>
    /\ \A i \in 1 .. Len(resources.urls) :
         resources.requests[i] = "string" =>
           /\ i <= Len(resources.replacementUrls)
           /\ resources.replacementUrls[i].for = resources.urls[i]
    /\ \A i \in 1 .. Len(resources.replacementUrls) :
         resources.replacementUrls[i] # NoReplacement =>
           /\ i <= Len(resources.urls)
           /\ resources.replacementUrls[i].for = resources.urls[i]
    /\ (ret.op = "resourcesGet" /\ resources.requests[ret.arg] = "string")
         => ret.val.for = ret.arg

\* C37 when no createUrl() failed
C37_AlignedWithoutFailure ==
  (resources.state = "resolved"
     /\ \A i \in 1 .. Len(resources.requests) :
          resources.requests[i] = "string") =>
    /\ Len(resources.replacementUrls) = Len(resources.urls)
    /\ \A i \in 1 .. Len(resources.urls) :
         resources.replacementUrls[i].for = resources.urls[i]
    /\ ret.op = "resourcesGet" => ret.val.for = ret.arg

\* the queue has run the i-th call of display()
displayRun(i) ==
  i <= Len(rendition.displays) /\ rendition.displays[i].state # "queued"

\* the promise of the i-th call is settled as the claim says
displaySettled(i) ==
  LET d == rendition.displays[i]
  IN  /\ i <= Len(rendition.displays)
      /\ d.state \in {"resolved", "rejected"}
      /\ d.manager = "ok" =>
           d.state = "resolved" /\ d.result.kind = "section"
      /\ d.manager = "failed" => d.state = "rejected"
      /\ d.found = "no" => d.state = "rejected"

\* C38: every promise returned by Rendition.display(target) eventually
\* settles once the queue runs it: it resolves with the section when
\* manager.display succeeds, and it rejects when no section is found for
\* the target or when manager.display fails.
C38_DisplaySettles ==
  \A i \in 1 .. MaxDisplays : displayRun(i) ~> displaySettled(i)

\* C38 for the targets without a section: the promise is rejected in the
\* step that runs the task
C38_NoSectionRejects ==
  \A i \in 1 .. MaxDisplays :
    (i <= Len(rendition.displays) /\ rendition.displays[i].found = "no") =>
      /\ rendition.displays[i].state = "rejected"
      /\ rendition.displays[i].result = NoSectionFound

\* C38 while manager.display() does not fail: the promise is settled
C38_SettlesUnlessFailed ==
  \A i \in 1 .. MaxDisplays :
    displayRun(i) ~>
      /\ i <= Len(rendition.displays)
      /\ \/ rendition.displays[i].state \in {"resolved", "rejected"}
         \/ rendition.displays[i].manager = "failed"
====
